---- MODULE Spec2Model ----
(***************************************************************************)
(* Model of the data-safety layer of jasapp/al: the safe vendor operations *)
(* (al/helpers/vendor_safe.py) over the vendor store                       *)
(* (al/helpers/vendor_helper.py), with the duplicate checker, the change   *)
(* verifier, the audit logger and the pending-confirmation registry        *)
(* (al/helpers/data_safety.py).                                            *)
(***************************************************************************)
EXTENDS Integers, Sequences, FiniteSets, TLC

(***************************************************************************)
(* Python values.  Every value is a record of one shape, so that values of *)
(* different Python types compare unequal instead of failing to compare:   *)
(* t is the type, s the characters of a str (or the items of a list of     *)
(* str), n the number of an int or bool.  "" and [] are different values.  *)
(* An Optional[...] of a structured value is a sequence of length 0 or 1.  *)
(***************************************************************************)
None == [t |-> "none", s |-> <<>>, n |-> 0]
PyStr(cs) == [t |-> "str", s |-> cs, n |-> 0]
PyInt(i) == [t |-> "int", s |-> <<>>, n |-> i]
PyList(xs) == [t |-> "list", s |-> xs, n |-> 0]
PyBool(b) == [t |-> "bool", s |-> <<>>, n |-> IF b THEN 1 ELSE 0]

\* A str no character-level operation is applied to, held as one token.
PyTok(tok) == PyStr(<<tok>>)

Nothing == <<>>

Some(x) == <<x>>

\* dict.get(key), with the default None.
Get(d, key) == IF key \in DOMAIN d THEN d[key] ELSE None

\* Python truthiness: None, "", [], 0 and False are falsy.
Truthy(v) ==
    CASE v.t = "none" -> FALSE
      [] v.t \in {"int", "bool"} -> v.n # 0
      [] OTHER -> v.s # <<>>

(***************************************************************************)
(* Characters.  str.lower, str.isspace and str.isdigit on the alphabet the *)
(* model's strings are written in.                                         *)
(***************************************************************************)
Lower(c) ==
    CASE c = "A" -> "a"
      [] c = "B" -> "b"
      [] c = "E" -> "e"
      [] c = "K" -> "k"
      [] c = "S" -> "s"
      [] c = "U" -> "u"
      [] OTHER -> c

IsSpace(c) == c = " "

IsDigit(c) == c \in {"0", "1", "2", "3", "4", "5", "6", "7", "8", "9"}

RECURSIVE LStrip(_)
LStrip(cs) ==
    IF cs # <<>> /\ IsSpace(Head(cs)) THEN LStrip(Tail(cs)) ELSE cs

RECURSIVE RStrip(_)
RStrip(cs) ==
    IF cs # <<>> /\ IsSpace(cs[Len(cs)])
    THEN RStrip(SubSeq(cs, 1, Len(cs) - 1))
    ELSE cs

\* str.strip()
Strip(cs) == RStrip(LStrip(cs))

\* str.lower()
LowerStr(cs) == [i \in 1..Len(cs) |-> Lower(cs[i])]

\* DuplicateChecker.normalize_string: None -> "", else s.strip().lower().
\* The result is the character sequence of the normalized string.
normalize_string(v) ==
    IF v.t = "none" THEN <<>> ELSE LowerStr(Strip(v.s))

\* DuplicateChecker.normalize_phone: None -> "", else the digits of phone.
normalize_phone(v) ==
    IF v.t = "none" THEN <<>> ELSE SelectSeq(v.s, IsDigit)

(***************************************************************************)
(* Levenshtein.distance, by rows of the dynamic-programming table.         *)
(***************************************************************************)
Min2(a, b) == IF a <= b THEN a ELSE b

Max2(a, b) == IF a >= b THEN a ELSE b

RECURSIVE LevRow(_, _, _, _)
\* The row of character c from the previous row prev, for the columns
\* after those already in cur.
LevRow(prev, c, b, cur) ==
    IF Len(cur) = Len(prev) THEN cur
    ELSE LET j == Len(cur)
             cost == IF c = b[j] THEN 0 ELSE 1
             v == Min2(Min2(prev[j + 1] + 1, cur[j] + 1), prev[j] + cost)
         IN LevRow(prev, c, b, Append(cur, v))

RECURSIVE LevRows(_, _, _, _)
LevRows(a, b, i, prev) ==
    IF i > Len(a) THEN prev
    ELSE LevRows(a, b, i + 1, LevRow(prev, a[i], b, <<prev[1] + 1>>))

Levenshtein(a, b) ==
    LevRows(a, b, 1, [j \in 1..(Len(b) + 1) |-> j - 1])[Len(b) + 1]

(***************************************************************************)
(* Scores are fractions <<numerator, denominator>>, compared by cross      *)
(* multiplication: 1.0 - distance / max_len is (max_len - distance) over   *)
(* max_len.                                                                *)
(***************************************************************************)
RECURSIVE GCD(_, _)
GCD(a, b) == IF b = 0 THEN a ELSE GCD(b, a % b)

\* A fraction in lowest terms, so that equal scores are equal values.
Frac(a, b) == LET g == GCD(a, b) IN <<a \div g, b \div g>>

FracGE(x, y) == x[1] * y[2] >= y[1] * x[2]

FracGT(x, y) == x[1] * y[2] > y[1] * x[2]

FracMax(x, y) == IF FracGT(y, x) THEN y ELSE x

\* DuplicateChecker.NAME_SIMILARITY_THRESHOLD = 0.75
NAME_SIMILARITY_THRESHOLD == Frac(3, 4)

\* DuplicateChecker.MAX_LEVENSHTEIN_DISTANCE
MAX_LEVENSHTEIN_DISTANCE == 3

\* string_similarity without the test for an empty string.
string_similarity_NoEmptyCheck(v1, v2) ==
    LET s1 == normalize_string(v1)
        s2 == normalize_string(v2)
        max_len == Max2(Len(s1), Len(s2))
    IN IF max_len = 0 THEN Frac(1, 1)
       ELSE Frac(max_len - Levenshtein(s1, s2), max_len)

\* DuplicateChecker.string_similarity
string_similarity(v1, v2) ==
    LET s1 == normalize_string(v1)
        s2 == normalize_string(v2)
        max_len == Max2(Len(s1), Len(s2))
    IN IF s1 = <<>> \/ s2 = <<>> THEN Frac(0, 1)
       ELSE IF max_len = 0 THEN Frac(1, 1)
       ELSE Frac(max_len - Levenshtein(s1, s2), max_len)

RECURSIVE SplitWords(_, _, _)
\* str.split(): the maximal runs of non-space characters, as a set (the
\* code only builds set(...) of them).  word is the run being read.
SplitWords(cs, word, acc) ==
    IF cs = <<>> THEN (IF word = <<>> THEN acc ELSE acc \cup {word})
    ELSE IF IsSpace(Head(cs))
         THEN SplitWords(Tail(cs), <<>>, IF word = <<>> THEN acc ELSE acc \cup {word})
         ELSE SplitWords(Tail(cs), Append(word, Head(cs)), acc)

common_words ==
    { <<"t","h","e">>, <<"a">>, <<"a","n">>, <<"a","n","d">>, <<"o","r">>,
      <<"b","u","t">>, <<"i","n">>, <<"o","n">>, <<"a","t">>, <<"t","o">>,
      <<"f","o","r">> }

\* DuplicateChecker.contains_same_words
contains_same_words(v1, v2) ==
    LET words1 == SplitWords(normalize_string(v1), <<>>, {}) \ common_words
        words2 == SplitWords(normalize_string(v2), <<>>, {}) \ common_words
        intersection == words1 \cap words2
        union == words1 \cup words2
    IN IF words1 = {} \/ words2 = {} THEN FALSE
       ELSE IF Cardinality(intersection) = 0 THEN FALSE
       ELSE 10 * Cardinality(intersection) >= 8 * Cardinality(union)

(***************************************************************************)
(* DuplicateChecker.check_vendor_duplicates.  A candidate is the dict      *)
(* add_vendor_safe builds: id, name, email, phone, products.               *)
(***************************************************************************)
\* The rule of lines 162-170: at most one name tag, first that applies.
NameRule(name, vendor_name) ==
    LET name_similarity == string_similarity(name, vendor_name)
        name_distance == Levenshtein(normalize_string(name),
                                     normalize_string(vendor_name))
    IN IF FracGE(name_similarity, NAME_SIMILARITY_THRESHOLD)
       THEN [fields |-> <<"name_similarity">>,
             score |-> FracMax(Frac(0, 1), name_similarity)]
       ELSE IF name_distance <= MAX_LEVENSHTEIN_DISTANCE
       THEN [fields |-> <<"name_close">>, score |-> FracMax(Frac(0, 1), Frac(7, 10))]
       ELSE IF contains_same_words(name, vendor_name)
       THEN [fields |-> <<"name_words">>, score |-> FracMax(Frac(0, 1), Frac(8, 10))]
       ELSE [fields |-> <<>>, score |-> Frac(0, 1)]

\* The email rule comparing the emails as they are given.
EmailRule_Exact(email, vendor, m) ==
    IF /\ Truthy(email)
       /\ Truthy(Get(vendor, "email"))
       /\ email = vendor["email"]
    THEN [fields |-> Append(m.fields, "email"), score |-> Frac(1, 1)]
    ELSE m

\* Lines 172-176.
EmailRule(email, vendor, m) ==
    IF /\ Truthy(email)
       /\ Truthy(Get(vendor, "email"))
       /\ normalize_string(email) = normalize_string(vendor["email"])
    THEN [fields |-> Append(m.fields, "email"), score |-> Frac(1, 1)]
    ELSE m

\* Lines 178-182.
PhoneRule(phone, vendor, m) ==
    IF /\ Truthy(phone)
       /\ Truthy(Get(vendor, "phone"))
       /\ normalize_phone(phone) = normalize_phone(vendor["phone"])
    THEN [fields |-> Append(m.fields, "phone"), score |-> Frac(1, 1)]
    ELSE m

\* One pass of the loop body, lines 150-191: the match of one candidate,
\* with no matched fields when no rule fired.
MatchVendor(name, email, phone, vendor) ==
    LET vendor_name == IF "name" \in DOMAIN vendor THEN vendor["name"] ELSE PyStr(<<>>)
        m == PhoneRule(phone, vendor,
                 EmailRule(email, vendor, NameRule(name, vendor_name)))
    IN [record_id |-> IF "id" \in DOMAIN vendor THEN vendor["id"] ELSE PyStr(<<>>),
        similarity_score |-> m.score,
        matched_fields |-> m.fields,
        data |-> vendor]

RECURSIVE InsertByScore(_, _)
\* x placed after every element whose score is at least its own.
InsertByScore(sorted, x) ==
    IF sorted = <<>> THEN <<x>>
    ELSE IF FracGE(Head(sorted).similarity_score, x.similarity_score)
         THEN <<Head(sorted)>> \o InsertByScore(Tail(sorted), x)
         ELSE <<x>> \o sorted

RECURSIVE SortByScore(_, _)
\* list.sort(key=score, reverse=True): stable, highest score first.
SortByScore(xs, acc) ==
    IF xs = <<>> THEN acc ELSE SortByScore(Tail(xs), InsertByScore(acc, Head(xs)))

check_vendor_duplicates(name, email, phone, existing_vendors) ==
    LET all == [i \in 1..Len(existing_vendors) |->
                    MatchVendor(name, email, phone, existing_vendors[i])]
        duplicates == SelectSeq(all, LAMBDA d : d.matched_fields # <<>>)
    IN SortByScore(duplicates, <<>>)

(***************************************************************************)
(* DuplicateChecker.check_invoice_duplicates.  An ISO date string is held  *)
(* by the instant it denotes, in hours; amounts are whole numbers.         *)
(***************************************************************************)
\* The str datetime.fromisoformat reads as the instant of hour h.
IsoDate(h) == [t |-> "str", s |-> <<"T">>, n |-> h]

\* datetime.fromisoformat in a try: Nothing when it raises.
fromisoformat(v) ==
    IF v.t = "str" /\ v.s = <<"T">> THEN Some(v.n) ELSE Nothing

Abs(i) == IF i < 0 THEN 0 - i ELSE i

\* abs((target_date - invoice_date).days): timedelta.days rounds down.
days_diff(target_date, invoice_date) ==
    Abs((target_date - invoice_date) \div 24)

\* dict.get(key, default)
GetOr(d, key, default) == IF key \in DOMAIN d THEN d[key] ELSE default

\* Lines 253-255: amount_diff_pct <= 0.10, where amount_diff_pct is
\* abs(amount - invoice_amount) / max(amount, invoice_amount) if
\* amount > 0, else 0.
AmountWithin10Pct(amount, invoice_amount) ==
    IF amount > 0
    THEN 10 * Abs(amount - invoice_amount) <= Max2(amount, invoice_amount)
    ELSE TRUE

\* Lines 238-242.
OrderNumberRule(order_number, invoice_order_num, m) ==
    IF /\ Truthy(order_number)
       /\ Truthy(invoice_order_num)
       /\ normalize_string(order_number) = normalize_string(invoice_order_num)
    THEN [fields |-> Append(m.fields, "order_number"), score |-> Frac(1, 1)]
    ELSE m

\* Lines 244-258.
DateAmountRule(amount, target_date, invoice_amount, invoice_date_str, m) ==
    IF /\ target_date # Nothing
       /\ Truthy(invoice_date_str)
       /\ fromisoformat(invoice_date_str) # Nothing
       /\ days_diff(target_date[1], fromisoformat(invoice_date_str)[1]) <= 7
       /\ AmountWithin10Pct(amount.n, invoice_amount.n)
    THEN [fields |-> Append(m.fields, "date_and_amount"),
          score |-> FracMax(m.score, Frac(9, 10))]
    ELSE m

\* The vendor test passing every candidate.
SameVendor_Any(vendor_name, invoice_vendor) == TRUE

\* Lines 232-235: the candidate is of the same vendor.
SameVendor(vendor_name, invoice_vendor) ==
    ~FracGT(Frac(8, 10), string_similarity(vendor_name, invoice_vendor))

\* One pass of the loop body, lines 223-265: no matched fields when the
\* candidate is skipped or no rule fired.
MatchInvoice(vendor_name, amount, target_date, order_number, invoice) ==
    LET invoice_vendor == GetOr(invoice, "vendor_name", PyStr(<<>>))
        invoice_amount == GetOr(invoice, "total_amount", PyInt(0))
        invoice_date_str == GetOr(invoice, "order_date", PyStr(<<>>))
        invoice_order_num == GetOr(invoice, "order_number", PyStr(<<>>))
        none == [fields |-> <<>>, score |-> Frac(0, 1)]
        m == IF ~SameVendor(vendor_name, invoice_vendor) THEN none
             ELSE DateAmountRule(amount, target_date, invoice_amount,
                      invoice_date_str,
                      OrderNumberRule(order_number, invoice_order_num, none))
    IN [record_id |-> GetOr(invoice, "id", PyStr(<<>>)),
        similarity_score |-> m.score,
        matched_fields |-> m.fields,
        data |-> invoice]

check_invoice_duplicates(vendor_name, amount, order_date, order_number, existing_invoices) ==
    LET target_date == fromisoformat(order_date)
        all == [i \in 1..Len(existing_invoices) |->
                    MatchInvoice(vendor_name, amount, target_date, order_number,
                                 existing_invoices[i])]
        duplicates == SelectSeq(all, LAMBDA d : d.matched_fields # <<>>)
    IN SortByScore(duplicates, <<>>)

(***************************************************************************)
(* ChangeVerifier.                                                         *)
(***************************************************************************)
\* The keys of the dicts of the vendor flows, in the order the code
\* inserts them (vendor_safe.py lines 61-69 and 246-258, 276).
FieldOrder ==
    <<"name", "contact_name", "email", "phone", "products",
      "lead_time_days", "notes">>

\* list(d.keys())
Keys(d) == SelectSeq(FieldOrder, LAMBDA f : f \in DOMAIN d)

\* normalize_value leaving strings as they are.
normalize_value_NoStrip(value) ==
    IF value.t = "none" THEN PyStr(<<>>) ELSE value

\* ChangeVerifier.normalize_value
normalize_value(value) ==
    IF value.t = "str" THEN PyStr(Strip(value.s))
    ELSE IF value.t = "none" THEN PyStr(<<>>)
    ELSE value

RECURSIVE Mismatches(_, _, _)
Mismatches(intended_data, actual_data, fields) ==
    IF fields = <<>> THEN <<>>
    ELSE LET field == Head(fields)
             intended_value == normalize_value(Get(intended_data, field))
             actual_value == normalize_value(Get(actual_data, field))
             rest == Mismatches(intended_data, actual_data, Tail(fields))
         IN IF intended_value # actual_value
            THEN <<[field |-> field, intended |-> intended_value,
                    actual |-> actual_value]>> \o rest
            ELSE rest

\* ChangeVerifier.verify_record with fields_to_check given.
verify_record_fields(intended_data, actual_data, fields_to_check) ==
    LET mismatches == Mismatches(intended_data, actual_data, fields_to_check)
    IN [passed |-> Len(mismatches) = 0,
        mismatches |-> mismatches,
        record_id |-> Get(actual_data, "id")]

\* ChangeVerifier.verify_record with fields_to_check omitted (None).
verify_record(intended_data, actual_data) ==
    verify_record_fields(intended_data, actual_data, Keys(intended_data))

(***************************************************************************)
(* VendorHelper: the vendor store.  self.vendors is a dict from name to    *)
(* Vendor, held here as the sequence of its values in insertion order.     *)
(***************************************************************************)
HasVendor(vendors, name) == \E i \in 1..Len(vendors) : vendors[i].name = name

IndexOfVendor(vendors, name) == CHOOSE i \in 1..Len(vendors) : vendors[i].name = name

\* Vendor(...) with __post_init__; the order fields take their defaults.
Vendor(name, contact_name, email, phone, products, lead_time_days, notes) ==
    [name |-> name,
     contact_name |-> contact_name,
     email |-> email,
     phone |-> phone,
     products |-> IF products = None THEN PyList(<<>>) ELSE products,
     lead_time_days |-> lead_time_days,
     notes |-> notes,
     last_order_date |-> None,
     last_order_details |-> None]

\* self.vendors[name] = vendor: a present key keeps its place.
PutVendor(vendors, vendor) ==
    IF HasVendor(vendors, vendor.name)
    THEN [vendors EXCEPT ![IndexOfVendor(vendors, vendor.name)] = vendor]
    ELSE Append(vendors, vendor)

\* VendorHelper.add_vendor(**a).  raises: the call to the remote store on
\* line 128 raises, which is before the vendor is put in self.vendors.
add_vendor(vendors, a, raises) ==
    LET vendor == Vendor(a["name"], a["contact_name"], a["email"], a["phone"],
                         IF Truthy(a["products"]) THEN a["products"] ELSE PyList(<<>>),
                         a["lead_time_days"], a["notes"])
    IN IF raises
       THEN [raised |-> TRUE, vendors |-> vendors, vendor |-> Nothing]
       ELSE [raised |-> FALSE, vendors |-> PutVendor(vendors, vendor),
             vendor |-> Some(vendor)]

\* SetFields with the test "if value" in place of "value is not None".
SetFields_SkipsFalsy(vendor, kwargs) ==
    [f \in DOMAIN vendor |->
        IF f \in DOMAIN kwargs /\ Truthy(kwargs[f]) THEN kwargs[f] ELSE vendor[f]]

\* The loop of lines 165-167 on one vendor: every keyword whose value is
\* not None is set.
SetFields(vendor, kwargs) ==
    [f \in DOMAIN vendor |->
        IF f \in DOMAIN kwargs /\ kwargs[f] # None THEN kwargs[f] ELSE vendor[f]]

\* VendorHelper.update_vendor(name, **kwargs): None for an unknown name.
\* raises: the store raises before it changes anything.
update_vendor(vendors, name, kwargs, raises) ==
    IF raises
    THEN [raised |-> TRUE, vendors |-> vendors, vendor |-> Nothing]
    ELSE IF ~HasVendor(vendors, name)
    THEN [raised |-> FALSE, vendors |-> vendors, vendor |-> Nothing]
    ELSE LET i == IndexOfVendor(vendors, name)
             vendor == SetFields(vendors[i], kwargs)
         IN [raised |-> FALSE,
             vendors |-> [vendors EXCEPT ![i] = vendor],
             vendor |-> Some(vendor)]

\* VendorHelper.get_vendor
get_vendor(vendors, name) ==
    IF HasVendor(vendors, name) THEN Some(vendors[IndexOfVendor(vendors, name)])
    ELSE Nothing

\* VendorHelper.get_all_vendors
get_all_vendors(vendors) == vendors

(***************************************************************************)
(* AuditLogger.  audit_file is the sequence of the entries of the current  *)
(* log; archives maps the second an archive is named after to its entries. *)
(***************************************************************************)
\* AuditLogger.MAX_ENTRIES
MAX_ENTRIES == 10000

\* AuditLogger._count_entries
count_entries(audit_file) == Len(audit_file)

\* Path.rename onto archive_file: an archive of the same name is replaced.
PutArchive(archives, timestamp, entries) ==
    [t \in DOMAIN archives \cup {timestamp} |->
        IF t = timestamp THEN entries ELSE archives[t]]

\* _rotate_if_needed with the test > in place of >=.
rotate_if_needed_Above(lg, timestamp) ==
    IF count_entries(lg.audit_file) > MAX_ENTRIES
    THEN [audit_file |-> <<>>,
          archives |-> PutArchive(lg.archives, timestamp, lg.audit_file)]
    ELSE lg

\* AuditLogger._rotate_if_needed at clock second timestamp.
rotate_if_needed(lg, timestamp) ==
    IF count_entries(lg.audit_file) >= MAX_ENTRIES
    THEN [audit_file |-> <<>>,
          archives |-> PutArchive(lg.archives, timestamp, lg.audit_file)]
    ELSE lg

\* log writing the entry twice.
log_Twice(lg, entry, timestamp) ==
    LET r == rotate_if_needed(lg, timestamp)
    IN [r EXCEPT !.audit_file = Append(Append(r.audit_file, entry), entry)]

\* AuditLogger.log
log(lg, entry, timestamp) ==
    LET r == rotate_if_needed(lg, timestamp)
    IN [r EXCEPT !.audit_file = Append(r.audit_file, entry)]

\* AuditEntry leaving error at its default, None.
AuditEntry_NoError(operation, intended_data, duplicates, user_confirmed, confirmation_choice, result, verification, notion_record_id, actual_data, error) ==
    [operation |-> operation,
     entity_type |-> "vendor",
     user |-> "jeff",
     intended_data |-> intended_data,
     duplicates_found |-> Len(duplicates),
     duplicate_details |-> duplicates,
     user_confirmed |-> user_confirmed,
     confirmation_choice |-> confirmation_choice,
     result |-> result,
     verification |-> verification,
     notion_record_id |-> notion_record_id,
     actual_data |-> actual_data,
     error |-> None]

\* AuditEntry(...), without its timestamp.
AuditEntry(operation, intended_data, duplicates, user_confirmed, confirmation_choice, result, verification, notion_record_id, actual_data, error) ==
    [operation |-> operation,
     entity_type |-> "vendor",
     user |-> "jeff",
     intended_data |-> intended_data,
     duplicates_found |-> Len(duplicates),
     duplicate_details |-> duplicates,
     user_confirmed |-> user_confirmed,
     confirmation_choice |-> confirmation_choice,
     result |-> result,
     verification |-> verification,
     notion_record_id |-> notion_record_id,
     actual_data |-> actual_data,
     error |-> error]

(***************************************************************************)
(* PendingConfirmation: _pending and _last_reminder, dicts keyed by the    *)
(* operation id.                                                           *)
(***************************************************************************)
DictPut(d, k, v) == [x \in DOMAIN d \cup {k} |-> IF x = k THEN v ELSE d[x]]

DictPop(d, k) == [x \in DOMAIN d \ {k} |-> d[x]]

\* add storing an empty list of duplicates.
pending_add_DropsMatches(pc, operation_id, operation, intended_data, duplicates, timestamp) ==
    [pending |-> DictPut(pc.pending, operation_id,
                    [timestamp |-> timestamp,
                     operation |-> operation,
                     entity_type |-> "vendor",
                     intended_data |-> intended_data,
                     duplicates |-> <<>>]),
     last_reminder |-> DictPut(pc.last_reminder, operation_id, timestamp)]

\* PendingConfirmation.add
pending_add(pc, operation_id, operation, intended_data, duplicates, timestamp) ==
    [pending |-> DictPut(pc.pending, operation_id,
                    [timestamp |-> timestamp,
                     operation |-> operation,
                     entity_type |-> "vendor",
                     intended_data |-> intended_data,
                     duplicates |-> duplicates]),
     last_reminder |-> DictPut(pc.last_reminder, operation_id, timestamp)]

\* PendingConfirmation.get
pending_get(pc, operation_id) ==
    IF operation_id \in DOMAIN pc.pending THEN Some(pc.pending[operation_id])
    ELSE Nothing

\* remove leaving the registry as it is.
pending_remove_Noop(pc, operation_id) == pc

\* PendingConfirmation.remove
pending_remove(pc, operation_id) ==
    [pending |-> DictPop(pc.pending, operation_id),
     last_reminder |-> DictPop(pc.last_reminder, operation_id)]

(***************************************************************************)
(* SafeVendorOperations.  A world w holds the store, the registry, the     *)
(* audit log, the next fresh operation id (uuid4, taken to be fresh) and   *)
(* events, the calls the running operation has made so far.  Each          *)
(* operation yields the world it leaves and what it returns.               *)
(***************************************************************************)
Ev(w, e) == [w EXCEPT !.events = Append(@, e)]

WLog(w, entry, ts) ==
    LET r == log([audit_file |-> w.audit_file, archives |-> w.archives], entry, ts)
    IN [w EXCEPT !.audit_file = r.audit_file,
                 !.archives = r.archives,
                 !.events = Append(@, "audit")]

WPendingAdd(w, operation_id, operation, intended_data, duplicates, ts) ==
    LET r == pending_add([pending |-> w.pending, last_reminder |-> w.last_reminder],
                         operation_id, operation, intended_data, duplicates, ts)
    IN [w EXCEPT !.pending = r.pending,
                 !.last_reminder = r.last_reminder,
                 !.next_id = @ + 1,
                 !.events = Append(@, "pending_add")]

WPendingRemove(w, operation_id) ==
    LET r == pending_remove([pending |-> w.pending, last_reminder |-> w.last_reminder],
                            operation_id)
    IN [w EXCEPT !.pending = r.pending,
                 !.last_reminder = r.last_reminder,
                 !.events = Append(@, "pending_remove")]

\* What a call returns: the keys of the returned dict the flows branch on.
\* operation_id 0 stands for a dict without that key.
Ret(status, operation_id, error, duplicates, verification) ==
    [status |-> status,
     operation_id |-> operation_id,
     error |-> error,
     duplicates |-> duplicates,
     verification |-> verification]

Failed(error) == Ret("failed", 0, PyTok(error), <<>>, Nothing)

\* The call did not return: an exception left it.
Raised == Ret("raised", 0, PyTok("store error"), <<>>, Nothing)

\* str(e) of the exception of a store that raises.
StoreError == PyTok("store error")

\* str(e) of the AttributeError of vendor.name on the None update_vendor
\* returns for an unknown name.
NoneVendorError == PyTok("'NoneType' object has no attribute 'name'")

\* The duplicate check given no candidates.
existing_vendor_data_NoCandidates(existing_vendors) == <<>>

\* Lines 75-84: the candidates of the duplicate check.
existing_vendor_data(existing_vendors) ==
    [i \in 1..Len(existing_vendors) |->
        [id |-> existing_vendors[i].name,
         name |-> existing_vendors[i].name,
         email |-> existing_vendors[i].email,
         phone |-> existing_vendors[i].phone,
         products |-> existing_vendors[i].products]]

\* Lines 145-153 and 391-399.
ActualData(vendor) ==
    [name |-> vendor.name,
     contact_name |-> vendor.contact_name,
     email |-> vendor.email,
     phone |-> vendor.phone,
     products |-> vendor.products,
     lead_time_days |-> vendor.lead_time_days,
     notes |-> vendor.notes]

\* intended_data with products as given, without "or []".
IntendedData_Raw(a) == a

\* Lines 61-69.
IntendedData(a) ==
    [a EXCEPT !["products"] = IF Truthy(a["products"]) THEN a["products"]
                              ELSE PyList(<<>>)]

\* Every store keeping no notes, VendorHelper too.
Lossy_EveryStore(fields, fault) ==
    IF "notes" \in DOMAIN fields THEN [fields EXCEPT !["notes"] = None] ELSE fields

\* A store other than VendorHelper (vendor_helper is a parameter of the
\* constructor) may keep less than it is given: the lossy store has no
\* notes.  What such a store is asked to write, from what the flow passes.
Lossy(fields, fault) ==
    IF fault = "lossy" /\ "notes" \in DOMAIN fields
    THEN [fields EXCEPT !["notes"] = None]
    ELSE fields

\* The result always success, whatever the verification found.
ResultOf_AlwaysSuccess(verification) == "success"

\* Lines 170 and 416: the result of a write that returned.
ResultOf(verification) ==
    IF verification.passed THEN "success" ELSE "verification_failed"

\* The handler letting the exception leave the call.
AddWriteFailed_Propagates(w, intended_data, skip_duplicate_check, ts) ==
    [w |-> w, ret |-> Raised]

\* Lines 195-219: the handler of an exception in the write.
AddWriteFailed(w, intended_data, skip_duplicate_check, ts) ==
    [w |-> WLog(w, AuditEntry("add_vendor", intended_data, <<>>,
                    IF skip_duplicate_check THEN PyBool(TRUE) ELSE None,
                    IF skip_duplicate_check THEN PyTok("create_new") ELSE None,
                    "failed", Nothing, None, Nothing, StoreError), ts),
     ret |-> Ret("failed", 0, StoreError, <<>>, Nothing)]

\* Lines 132-193: the write, its verification and its audit entry.
AddWrite(w, a, skip_duplicate_check, fault, ts) ==
    LET intended_data == IntendedData(a)
        r == add_vendor(w.vendors, Lossy(a, fault), fault = "write")
        w2 == Ev([w EXCEPT !.vendors = r.vendors], "add_vendor")
        user_confirmed == IF skip_duplicate_check THEN PyBool(TRUE) ELSE None
        confirmation_choice == IF skip_duplicate_check THEN PyTok("create_new") ELSE None
    IN IF r.raised
       THEN AddWriteFailed(w2, intended_data, skip_duplicate_check, ts)
       ELSE LET vendor == r.vendor[1]
                actual_data == ActualData(vendor)
                verification == verify_record(intended_data, actual_data)
                result == ResultOf(verification)
            IN [w |-> WLog(w2, AuditEntry("add_vendor", intended_data, <<>>,
                               user_confirmed, confirmation_choice, result,
                               Some(verification), vendor.name,
                               Some(actual_data), None), ts),
                ret |-> Ret(result, 0, None, <<>>, Some(verification))]

\* SafeVendorOperations.add_vendor_safe(**a, skip_duplicate_check).
\* fault: "read" when get_all_vendors raises, "write" when add_vendor does,
\* "lossy" when the store is one that keeps no notes.
add_vendor_safe(w, a, skip_duplicate_check, fault, ts) ==
    LET operation_id == w.next_id
        intended_data == IntendedData(a)
        w1 == IF skip_duplicate_check THEN w ELSE Ev(w, "get_all_vendors")
        duplicate_matches ==
            IF skip_duplicate_check THEN <<>>
            ELSE check_vendor_duplicates(a["name"], a["email"], a["phone"],
                     existing_vendor_data(get_all_vendors(w.vendors)))
    IN IF ~skip_duplicate_check /\ fault = "read"
       THEN [w |-> w1, ret |-> Raised]
       ELSE IF duplicate_matches # <<>>
       THEN LET w2 == WPendingAdd(w1, operation_id, "add_vendor", intended_data,
                                  duplicate_matches, ts)
                w3 == WLog(w2, AuditEntry("add_vendor", intended_data,
                               duplicate_matches, None, None, "pending",
                               Nothing, None, Nothing, None), ts)
            IN [w |-> w3,
                ret |-> Ret("duplicate_found", operation_id, None,
                            duplicate_matches, Nothing)]
       ELSE AddWrite(w1, a, skip_duplicate_check, fault, ts)

\* The keyword parameters of update_vendor_safe besides name.
UpdateFields ==
    {"contact_name", "email", "phone", "products", "lead_time_days", "notes"}

\* update_vendor_safe applying the update at once, staging nothing.
update_vendor_safe_WritesNow(w, a, ts) ==
    LET r == update_vendor(w.vendors, a["name"],
                           [f \in UpdateFields |-> a[f]], FALSE)
    IN IF r.vendor = Nothing
       THEN [w |-> Ev(w, "get_vendor"), ret |-> Failed("Vendor not found")]
       ELSE [w |-> Ev([w EXCEPT !.vendors = r.vendors], "get_vendor"),
             ret |-> Ret("success", 0, None, <<>>, Nothing)]

\* SafeVendorOperations.update_vendor_safe(**a): a parameter left out is None.
update_vendor_safe(w, a, ts) ==
    LET current_vendor == get_vendor(w.vendors, a["name"])
        w1 == Ev(w, "get_vendor")
        update_data == [f \in {g \in UpdateFields : a[g] # None} |-> a[f]]
        operation_id == w.next_id
    IN IF current_vendor = Nothing
       THEN [w |-> w1, ret |-> Failed("Vendor not found")]
       ELSE [w |-> WPendingAdd(w1, operation_id, "update_vendor",
                       DictPut(update_data, "name", a["name"]), <<>>, ts),
             ret |-> Ret("confirmation_required", operation_id, None, <<>>, Nothing)]

\* Lines 380-462: the confirmed update, its verification and its audit entry.
ConfirmUpdate(w, intended_data, fault, ts) ==
    LET r == update_vendor(w.vendors, intended_data["name"],
                           Lossy([f \in DOMAIN intended_data \ {"name"} |-> intended_data[f]],
                                 fault),
                           fault = "write")
        w2 == Ev([w EXCEPT !.vendors = r.vendors], "update_vendor")
        error == IF r.raised THEN StoreError ELSE NoneVendorError
    IN IF r.raised \/ r.vendor = Nothing
       THEN [w |-> WLog(w2, AuditEntry("update_vendor", intended_data, <<>>,
                            PyBool(TRUE), PyTok("confirm"), "failed",
                            Nothing, None, Nothing, error), ts),
             ret |-> Ret("failed", 0, error, <<>>, Nothing)]
       ELSE LET vendor == r.vendor[1]
                actual_data == ActualData(vendor)
                verification == verify_record(intended_data, actual_data)
                result == ResultOf(verification)
            IN [w |-> WLog(w2, AuditEntry("update_vendor", intended_data, <<>>,
                               PyBool(TRUE), PyTok("confirm"), result,
                               Some(verification), vendor.name,
                               Some(actual_data), None), ts),
                ret |-> Ret(result, 0, None, <<>>, Some(verification))]

\* The redirected update keeping the name of the staged add.
RedirectArgs_KeepsName(intended_data, update_record_id) ==
    [f \in {"name"} \cup UpdateFields |-> Get(intended_data, f)]

\* Lines 366-372: the arguments of the redirected update.
RedirectArgs(intended_data, update_record_id) ==
    [f \in {"name"} \cup UpdateFields |->
        IF f = "name" THEN update_record_id ELSE Get(intended_data, f)]

\* The test of the choice without the test of the operation.
IsConfirmedUpdate_AnyOperation(choice, operation) ==
    choice \in {"confirm", "proceed"}

\* Lines 380-382: the choice runs the staged update.
IsConfirmedUpdate(choice, operation) ==
    choice \in {"confirm", "proceed"} /\ operation = "update_vendor"

\* SafeVendorOperations.confirm_operation(operation_id, choice, update_record_id).
confirm_operation(w, operation_id, choice, update_record_id, fault, ts) ==
    LET found == pending_get([pending |-> w.pending,
                              last_reminder |-> w.last_reminder], operation_id)
    IN IF found = Nothing
       THEN [w |-> w, ret |-> Failed("Operation not found or already processed")]
       ELSE
       LET pending_op == found[1]
           operation == pending_op.operation
           intended_data == pending_op.intended_data
           w1 == WPendingRemove(w, operation_id)
       IN CASE choice = "cancel" ->
                 [w |-> WLog(w1, AuditEntry(operation, intended_data,
                                 pending_op.duplicates, PyBool(FALSE),
                                 PyTok("cancel"), "cancelled", Nothing, None,
                                 Nothing, None), ts),
                  ret |-> Ret("cancelled", 0, None, <<>>, Nothing)]
            [] choice = "create_new" ->
                 IF operation = "add_vendor"
                 THEN add_vendor_safe(w1, intended_data, TRUE, fault, ts)
                 ELSE [w |-> w1, ret |-> Failed("Invalid choice for this operation")]
            [] choice = "update_existing" ->
                 IF ~Truthy(update_record_id)
                 THEN [w |-> w1, ret |-> Failed("Missing update_record_id")]
                 ELSE IF operation = "add_vendor"
                 THEN update_vendor_safe(w1,
                          RedirectArgs(intended_data, update_record_id), ts)
                 ELSE [w |-> w1, ret |-> Failed("Invalid choice for this operation")]
            [] IsConfirmedUpdate(choice, operation) ->
                 ConfirmUpdate(w1, intended_data, fault, ts)
            [] OTHER -> [w |-> w1, ret |-> Failed("Invalid choice")]

(***************************************************************************)
(* The state: the store, the registry, the audit log, and of the last      *)
(* call its arguments, what it returned and the calls it made.  For        *)
(* callers that run concurrently, threads holds where each of them is in   *)
(* its call and its local variables, and audit_file_exists whether the     *)
(* path of the current log names a file: between the rename and the touch  *)
(* of a rotation it names none.                                            *)
(***************************************************************************)
VARIABLES vendors, pending, last_reminder, audit_file, archives, next_id,
          now, calls, last, threads, audit_file_exists

vars == <<vendors, pending, last_reminder, audit_file, archives, next_id,
          now, calls, last, threads, audit_file_exists>>

\* One caller at a time: no call is under way when another starts, and
\* every call leaves the current log in place.
OneCaller == threads = <<>> /\ audit_file_exists = TRUE

SameCaller == UNCHANGED <<threads, audit_file_exists>>

\* The number of calls of the public operations in a run.
MaxCalls == 3

\* Vendor names.  KesuSp normalizes to the characters of Kesu, Acme
\* matches Kesu by no name rule, Zeta is never stored.
Kesu == PyStr(<<"k", "e", "s", "u">>)

KesuSp == PyStr(<<"K", "e", "s", "u", " ">>)

Acme == PyStr(<<"a", "c", "m", "e">>)

Zeta == PyStr(<<"z", "e", "t", "a">>)

EmailA == PyStr(<<"a", "@", "x">>)

EmailAUpper == PyStr(<<"A", "@", "x", " ">>)

EmailB == PyStr(<<"b", "@", "x">>)

PhoneA == PyStr(<<"5", "5", "-", "1">>)

Bob == PyStr(<<"b", "o", "b">>)

NoteSp == PyStr(<<" ", "n">>)

\* The arguments of a call: name and the six optional parameters.
Args(name, contact_name, email, phone, products, lead_time_days, notes) ==
    [name |-> name, contact_name |-> contact_name, email |-> email,
     phone |-> phone, products |-> products,
     lead_time_days |-> lead_time_days, notes |-> notes]

\* A vendor the store holds when the process starts (_load_vendors).
StoredKesu ==
    [Vendor(Kesu, Bob, EmailA, PhoneA, PyList(<<"bolt">>), PyInt(5), None)
        EXCEPT !.last_order_date = PyTok("2024-01-01")]

InitialStores == { <<>>, <<StoredKesu>> }

AddRequests ==
    { Args(KesuSp, None, None, None, None, None, None),
      Args(Kesu, None, None, None, PyList(<<"nut">>), None, NoteSp),
      Args(Acme, None, EmailAUpper, None, None, None, None),
      Args(Acme, Bob, None, None, PyList(<<"nut">>), PyInt(0), None) }

UpdateRequests ==
    { Args(Kesu, None, EmailB, None, None, None, None),
      Args(Kesu, None, None, None, PyList(<<>>), PyInt(0), NoteSp),
      Args(Zeta, Bob, None, None, None, None, None) }

Choices ==
    {"cancel", "create_new", "update_existing", "confirm", "proceed", "retry"}

\* update_record_id: left out, an existing vendor, a vendor never stored.
RecordIds == {None, Kesu, Zeta}

World ==
    [vendors |-> vendors, pending |-> pending, last_reminder |-> last_reminder,
     audit_file |-> audit_file, archives |-> archives, next_id |-> next_id,
     events |-> <<>>]

\* The state a call leaves: r is what the operation yields.
Becomes(r, call, a, skip_duplicate_check, fault, operation_id, choice, update_record_id) ==
    /\ vendors' = r.w.vendors
    /\ pending' = r.w.pending
    /\ last_reminder' = r.w.last_reminder
    /\ audit_file' = r.w.audit_file
    /\ archives' = r.w.archives
    /\ next_id' = r.w.next_id
    /\ now' = now
    /\ calls' = calls + 1
    /\ last' = [call |-> call, a |-> a,
                skip_duplicate_check |-> skip_duplicate_check,
                fault |-> fault, operation_id |-> operation_id,
                choice |-> choice, update_record_id |-> update_record_id,
                ret |-> r.ret, events |-> r.w.events]
    /\ SameCaller

Init ==
    /\ vendors \in InitialStores
    /\ pending = <<>>
    /\ last_reminder = <<>>
    /\ audit_file = <<>>
    /\ archives = <<>>
    /\ next_id = 1
    /\ now = 0
    /\ calls = 0
    /\ OneCaller
    /\ last = [call |-> "none", a |-> <<>>, skip_duplicate_check |-> FALSE,
               fault |-> "none", operation_id |-> 0, choice |-> "",
               update_record_id |-> None,
               ret |-> Ret("none", 0, None, <<>>, Nothing), events |-> <<>>]

\* The behaviours of the store in a call: "none" and "write" are those of
\* VendorHelper, "read" and "lossy" those of another store.
Faults == {"none", "read", "write", "lossy"}

\* A call of add_vendor_safe.  The store may raise in the read of the
\* candidates (only made when the check is not skipped) or in the write
\* (with the check skipped, the write is the one confirm_operation makes
\* for create_new); the lossy store differs from VendorHelper only when
\* notes are given.
AddVendorSafe ==
    /\ calls < MaxCalls
    /\ \E a \in AddRequests, skip \in BOOLEAN, fault \in Faults :
          /\ fault \in {"read", "write"} => ~skip
          /\ fault = "lossy" => Truthy(a["notes"])
          /\ Becomes(add_vendor_safe(World, a, skip, fault, now),
                     "add_vendor_safe", a, skip, fault, 0, "", None)

\* A call of update_vendor_safe.
UpdateVendorSafe ==
    /\ calls < MaxCalls
    /\ \E a \in UpdateRequests :
          Becomes(update_vendor_safe(World, a, now),
                  "update_vendor_safe", a, FALSE, "none", 0, "", None)

\* A call of confirm_operation, for an id that was issued or the next one,
\* which was not.  update_record_id is given with update_existing only.
ConfirmOperation ==
    /\ calls < MaxCalls
    /\ \E id \in 1..next_id, choice \in Choices, rid \in RecordIds,
          fault \in Faults \ {"read"} :
          /\ rid # None => choice = "update_existing"
          /\ fault = "write" => choice \in {"create_new", "confirm"}
          /\ fault = "lossy" => choice = "confirm"
          /\ Becomes(confirm_operation(World, id, choice, rid, fault, now),
                     "confirm_operation", <<>>, FALSE, fault, id, choice, rid)

Next == AddVendorSafe \/ UpdateVendorSafe \/ ConfirmOperation

Spec == Init /\ [][Next]_vars

(***************************************************************************)
(* AuditLogger on its own.  The entry of the k-th call of log is the       *)
(* number k, and a line of the file that is no entry (a write cut short)   *)
(* is the number 0.  A logger is constructed on the files earlier runs     *)
(* left: the log it starts with is empty, or one call short of rotating    *)
(* for the first or for the second time.                                   *)
(***************************************************************************)
\* The calls of log in a run, counted from the empty log.
MaxLogCalls == 20002

\* The clock seconds a rotation may read: 0..MaxNow.
MaxNow == 1

\* The lines k..m, one entry each.
Serial(k, m) == [i \in 1..(m - k + 1) |-> k + i - 1]

\* What n calls of log, all within clock second 0, leave of an empty log.
AfterLogCalls(n) ==
    IF n <= MAX_ENTRIES
    THEN [audit_file |-> Serial(1, n), archives |-> <<>>]
    ELSE [audit_file |-> Serial(MAX_ENTRIES + 1, n),
          archives |-> PutArchive(<<>>, 0, Serial(1, MAX_ENTRIES))]

\* What the last call was: of log, the entry and whether it rotated; of
\* get_recent_entries, the limit and the entries returned.
LastCall(call, entry, rotated, limit, ret) ==
    [call |-> call, entry |-> entry, rotated |-> rotated, limit |-> limit,
     ret |-> ret]

\* The variables AuditLogger does not use.
NoVendorState ==
    /\ vendors = <<>>
    /\ pending = <<>>
    /\ last_reminder = <<>>
    /\ next_id = 1

\* AuditLogger.__init__: the audit file is kept if it exists.
LogInit ==
    /\ NoVendorState
    /\ OneCaller
    /\ now = 0
    /\ \E n \in {0, MAX_ENTRIES - 1, 2 * MAX_ENTRIES - 1} :
          /\ calls = n
          /\ audit_file = AfterLogCalls(n).audit_file
          /\ archives = AfterLogCalls(n).archives
          /\ last = IF n = 0 THEN LastCall("none", 0, FALSE, 0, <<>>)
                    ELSE LastCall("log", n, FALSE, 0, <<>>)

\* A call of log.  The clock is read only when the log is rotated; it does
\* not run backwards, and the second read may be the one of the rotation
\* before.
Log ==
    /\ calls < MaxLogCalls
    /\ \E t \in now..MaxNow :
          LET r == log([audit_file |-> audit_file, archives |-> archives],
                       calls + 1, t)
              rotated == count_entries(audit_file) >= MAX_ENTRIES
          IN /\ ~rotated => t = now
             /\ audit_file' = r.audit_file
             /\ archives' = r.archives
             /\ now' = t
             /\ calls' = calls + 1
             /\ last' = LastCall("log", calls + 1, rotated, 0, <<>>)
    /\ UNCHANGED <<vendors, pending, last_reminder, next_id>>
    /\ SameCaller

LogNext == Log

LogSpec == LogInit /\ [][LogNext]_vars

(***************************************************************************)
(* AuditLogger read back: calls of log and of get_recent_entries on a      *)
(* short log, some of whose lines are no entries.                          *)
(***************************************************************************)
\* The lines of the log in a run of reads.
MaxLines == 4

\* The limits passed to get_recent_entries: 0..MaxLimit.
MaxLimit == 3

\* A line json.loads or AuditEntry(**data) raises on.
Malformed == 0

\* lines[-limit:] for limit >= 0: -0 is 0, so the slice of limit 0 is the
\* whole list.
LastSlice(lines, limit) ==
    IF limit = 0 \/ limit >= Len(lines) THEN lines
    ELSE SubSeq(lines, Len(lines) - limit + 1, Len(lines))

\* AuditLogger.get_recent_entries
get_recent_entries(file, limit) ==
    SelectSeq(LastSlice(file, limit), LAMBDA line : line # Malformed)

ReadInit ==
    /\ NoVendorState
    /\ OneCaller
    /\ now = 0
    /\ calls = 0
    /\ audit_file = <<>>
    /\ archives = <<>>
    /\ last = LastCall("none", 0, FALSE, 0, <<>>)

\* A call of log on a log that is still short.
LogLine ==
    /\ Len(audit_file) < MaxLines
    /\ Log

\* A write of line 435 cut short: the line it leaves is no entry.
TornWrite ==
    /\ Len(audit_file) < MaxLines
    /\ audit_file' = Append(audit_file, Malformed)
    /\ last' = LastCall("torn", 0, FALSE, 0, <<>>)
    /\ UNCHANGED <<vendors, pending, last_reminder, archives, next_id, now, calls>>
    /\ SameCaller

\* A call of get_recent_entries.
GetRecentEntries ==
    /\ \E limit \in 0..MaxLimit :
          last' = LastCall("get_recent_entries", 0, FALSE, limit,
                           get_recent_entries(audit_file, limit))
    /\ UNCHANGED <<vendors, pending, last_reminder, audit_file, archives,
                   next_id, now, calls>>
    /\ SameCaller

ReadNext == LogLine \/ TornWrite \/ GetRecentEntries

ReadSpec == ReadInit /\ [][ReadNext]_vars

(***************************************************************************)
(* AuditLogger.log called by several callers at once.  The code takes no   *)
(* lock, so the system calls of one call of log interleave with those of   *)
(* another: the count of the lines, the rename and the touch of a          *)
(* rotation, the open for append and the write.  An open file follows the  *)
(* file it was opened on: after a rename it is the archive, and after the  *)
(* archive is replaced it is a file with no name.                          *)
(***************************************************************************)
\* The callers of log; each makes one call.
MaxCallers == 2

\* The file an open file object writes to: none (at "none"), the current
\* log (at "current"), the archive of second t, or a file that has lost its
\* name (at "unlinked").
OpenFile(at, t) == [at |-> at, t |-> t]

\* A caller: where it is in log, the entry it logs, the file it has open.
Caller(pc, entry, f) == [pc |-> pc, entry |-> entry, f |-> f]

\* The open files after the current log is renamed to the archive of
\* second t: those open on the current log are open on the archive, those
\* open on the archive it replaces are open on a file with no name.
Renamed(ths, t) ==
    [c \in DOMAIN ths |->
        IF ths[c].f = OpenFile("current", 0) THEN [ths[c] EXCEPT !.f = OpenFile("archive", t)]
        ELSE IF ths[c].f = OpenFile("archive", t) THEN [ths[c] EXCEPT !.f = OpenFile("unlinked", 0)]
        ELSE ths[c]]

\* The logger is constructed on a log one entry or no entry short of
\* rotating, or on an empty one.
ConcLogInit ==
    /\ NoVendorState
    /\ now = 0
    /\ audit_file_exists = TRUE
    /\ threads = [c \in (1..MaxCallers) |-> Caller("idle", 0, OpenFile("none", 0))]
    /\ last = LastCall("none", 0, FALSE, 0, <<>>)
    /\ \E n \in {0, MAX_ENTRIES - 1, MAX_ENTRIES} :
          /\ calls = n
          /\ audit_file = Serial(1, n)
          /\ archives = <<>>

\* A caller calls log: its entry is the next number.
CallLog ==
    \E c \in (1..MaxCallers) :
    /\ UNCHANGED <<vendors, pending, last_reminder, next_id, last>>
    /\ threads[c].pc = "idle"
    /\ threads' = [threads EXCEPT ![c] = Caller("count", calls + 1, OpenFile("none", 0))]
    /\ calls' = calls + 1
    /\ UNCHANGED <<audit_file, archives, now, audit_file_exists>>

\* Line 420: _count_entries, which is 0 when the file cannot be opened.
CountEntries ==
    \E c \in (1..MaxCallers) :
    /\ UNCHANGED <<vendors, pending, last_reminder, next_id, last>>
    /\ threads[c].pc = "count"
    /\ LET n == IF audit_file_exists THEN count_entries(audit_file) ELSE 0
       IN threads' = [threads EXCEPT ![c].pc = IF n >= MAX_ENTRIES THEN "rename" ELSE "open"]
    /\ UNCHANGED <<audit_file, archives, now, calls, audit_file_exists>>

\* Lines 422-425: the clock is read and the current log renamed; rename
\* raises FileNotFoundError when another caller has renamed it already,
\* and log ends without having written its entry.
RenameLog ==
    \E c \in (1..MaxCallers) :
    /\ UNCHANGED <<vendors, pending, last_reminder, next_id, last>>
    /\ threads[c].pc = "rename"
    /\ \E t \in now..MaxNow :
          /\ now' = t
          /\ IF audit_file_exists
             THEN /\ archives' = PutArchive(archives, t, audit_file)
                  /\ audit_file' = <<>>
                  /\ audit_file_exists' = FALSE
                  /\ threads' = [Renamed(threads, t) EXCEPT ![c].pc = "touch"]
             ELSE /\ threads' = [threads EXCEPT ![c].pc = "raised"]
                  /\ UNCHANGED <<audit_file, archives, audit_file_exists>>
    /\ UNCHANGED calls

\* Line 426: touch creates the file if there is none.
TouchLog ==
    \E c \in (1..MaxCallers) :
    /\ UNCHANGED <<vendors, pending, last_reminder, next_id, last>>
    /\ threads[c].pc = "touch"
    /\ audit_file_exists' = TRUE
    /\ threads' = [threads EXCEPT ![c].pc = "open"]
    /\ UNCHANGED <<audit_file, archives, now, calls>>

\* Line 434: open(..., 'a') creates the file if there is none.
OpenLog ==
    \E c \in (1..MaxCallers) :
    /\ UNCHANGED <<vendors, pending, last_reminder, next_id, last>>
    /\ threads[c].pc = "open"
    /\ audit_file_exists' = TRUE
    /\ threads' = [threads EXCEPT ![c].pc = "write", ![c].f = OpenFile("current", 0)]
    /\ UNCHANGED <<audit_file, archives, now, calls>>

\* Line 435 and the close of the with block: the line is appended to the
\* file that was opened, wherever it is now.
WriteLog ==
    \E c \in (1..MaxCallers) :
    /\ UNCHANGED <<vendors, pending, last_reminder, next_id, last>>
    /\ threads[c].pc = "write"
    /\ threads' = [threads EXCEPT ![c].pc = "done", ![c].f = OpenFile("none", 0)]
    /\ CASE threads[c].f = OpenFile("current", 0) ->
              /\ audit_file' = Append(audit_file, threads[c].entry)
              /\ UNCHANGED archives
         [] threads[c].f.at = "archive" ->
              /\ archives' = [archives EXCEPT ![threads[c].f.t] =
                                 Append(@, threads[c].entry)]
              /\ UNCHANGED audit_file
         [] OTHER -> UNCHANGED <<audit_file, archives>>
    /\ UNCHANGED <<now, calls, audit_file_exists>>

ConcLogNext ==
    \/ CallLog
    \/ CountEntries
    \/ RenameLog
    \/ TouchLog
    \/ OpenLog
    \/ WriteLog

ConcLogSpec == ConcLogInit /\ [][ConcLogNext]_vars

(***************************************************************************)
(* confirm_operation called by several callers at once, all for the one    *)
(* operation that is pending.  The code takes no lock: PendingConfirmation *)
(* .get of line 305 and .remove of line 317 are two calls, and another     *)
(* caller may run between them.  What follows the lookup uses the entry    *)
(* the caller found, not the registry, and remove is a pop with a default. *)
(***************************************************************************)
\* The callers of confirm_operation; each makes one call.
MaxConfirmers == 2

\* The choices of the concurrent callers.
ConcChoices == {"cancel", "create_new", "confirm"}

\* The process with one vendor stored and nothing pending.
FreshWorld ==
    [vendors |-> <<StoredKesu>>, pending |-> <<>>, last_reminder |-> <<>>,
     audit_file |-> <<>>, archives |-> <<>>, next_id |-> 1, events |-> <<>>]

\* What a first call of add_vendor_safe or of update_vendor_safe leaves
\* when it has staged an operation.
StagedWorlds ==
    { r.w : r \in { x \in { add_vendor_safe(FreshWorld, a, FALSE, "none", 0) :
                              a \in AddRequests }
                          \cup { update_vendor_safe(FreshWorld, a, 0) :
                                   a \in UpdateRequests } :
                    x.w.pending # <<>> } }

\* A caller of confirm_operation: where it is, its choice, the entry its
\* lookup found, what it returned and whether it called the store writer.
Confirmer(pc, choice, found, ret, wrote) ==
    [pc |-> pc, choice |-> choice, found |-> found, ret |-> ret, wrote |-> wrote]

ConcConfirmInit ==
    /\ \E w \in StagedWorlds :
          /\ vendors = w.vendors
          /\ pending = w.pending
          /\ last_reminder = w.last_reminder
          /\ audit_file = w.audit_file
          /\ archives = w.archives
          /\ next_id = w.next_id
    /\ now = 0
    /\ calls = 1
    /\ audit_file_exists = TRUE
    /\ threads = [c \in (1..MaxConfirmers) |->
          Confirmer("idle", "", Nothing, Ret("none", 0, None, <<>>, Nothing), FALSE)]
    /\ last = [call |-> "none"]

\* The world as the caller sees it after its lookup: the registry holds
\* the entry it found.
WithFound(w, operation_id, found) ==
    [w EXCEPT !.pending = DictPut(@, operation_id, found[1]),
              !.last_reminder = DictPut(@, operation_id, 0)]

\* Lines 305-311: a caller calls confirm_operation(1, choice) and looks the
\* operation up; it returns failed if there is none.
LookUp ==
    \E c \in (1..MaxConfirmers), choice \in ConcChoices :
    /\ threads[c].pc = "idle"
    /\ LET found == pending_get([pending |-> pending,
                                 last_reminder |-> last_reminder], 1)
       IN threads' = [threads EXCEPT ![c] =
             IF found = Nothing
             THEN Confirmer("done", choice, found,
                      confirm_operation(World, 1, choice, None, "none", now).ret,
                      FALSE)
             ELSE Confirmer("found", choice, found, Ret("none", 0, None, <<>>, Nothing), FALSE)]
    /\ calls' = calls + 1
    /\ UNCHANGED <<vendors, pending, last_reminder, audit_file, archives,
                   next_id, now, last, audit_file_exists>>

\* Lines 313-468: the caller removes the operation and carries out its
\* choice on the entry it found.
CarryOut ==
    \E c \in (1..MaxConfirmers) :
    /\ threads[c].pc = "found"
    /\ \E r \in {confirm_operation(WithFound(World, 1, threads[c].found), 1,
                                    threads[c].choice, None, "none", now)} :
          /\ vendors' = r.w.vendors
          /\ pending' = r.w.pending
          /\ last_reminder' = r.w.last_reminder
          /\ audit_file' = r.w.audit_file
          /\ archives' = r.w.archives
          /\ next_id' = r.w.next_id
          /\ threads' = [threads EXCEPT ![c] =
                Confirmer("done", threads[c].choice, threads[c].found, r.ret,
                          \E i \in DOMAIN r.w.events :
                              r.w.events[i] \in {"add_vendor", "update_vendor"})]
    /\ UNCHANGED <<now, calls, last, audit_file_exists>>

ConcConfirmNext == LookUp \/ CarryOut

ConcConfirmSpec == ConcConfirmInit /\ [][ConcConfirmNext]_vars

(***************************************************************************)
(* The pure functions of DuplicateChecker and ChangeVerifier, each applied *)
(* to arguments drawn from small sets.  last holds the call: its           *)
(* arguments and what it returned.                                         *)
(***************************************************************************)
\* The length of the strings compared.
MaxLen == 3

\* A lower-case letter, an upper-case letter and a space.
Chars == {"a", "B", " "}

\* The strings of at most MaxLen characters.
Strings == { PyStr(cs) : cs \in UNION { [1..k -> Chars] : k \in 0..MaxLen } }

\* No store, no log: the functions use neither.
PureInit ==
    /\ NoVendorState
    /\ OneCaller
    /\ audit_file = <<>>
    /\ archives = <<>>
    /\ now = 0
    /\ calls = 0
    /\ last = [call |-> "none"]

\* A run makes one call.
NotCalled == calls = 0

\* The call made: r is the call, with what it returned.
Applies(r) ==
    /\ calls' = 1
    /\ last' = r
    /\ UNCHANGED <<vendors, pending, last_reminder, audit_file, archives,
                   next_id, now>>
    /\ SameCaller

\* A call of DuplicateChecker.string_similarity.
StringSimilarity ==
    /\ NotCalled
    /\ \E s1 \in Strings, s2 \in Strings :
           Applies([call |-> "string_similarity", s1 |-> s1, s2 |-> s2,
                    ret |-> string_similarity(s1, s2)])

\* The candidates in a call of check_vendor_duplicates.
MaxCandidates == 2

PhoneAPlain == PyStr(<<"5", "5", "1">>)

\* The intended name, email and phone.
IntendedNames == {Kesu, KesuSp, Acme}

IntendedEmails == {None, PyStr(<<>>), EmailA, EmailAUpper, EmailB}

IntendedPhones == {None, PhoneAPlain, PyStr(<<"-", "-">>)}

\* The candidate dicts: those add_vendor_safe builds, one with an empty
\* email, one whose phone has no digit, and one without the keys email and
\* phone.
CandidateVendors ==
    { [id |-> n, name |-> n, email |-> e, phone |-> ph, products |-> PyList(<<>>)] :
        n \in {Kesu, Zeta}, e \in {None, EmailA}, ph \in {None, PhoneA} }
    \cup { [id |-> Zeta, name |-> Zeta, email |-> PyStr(<<>>), phone |-> None,
             products |-> PyList(<<>>)],
           [id |-> Zeta, name |-> Zeta, email |-> None, phone |-> PyStr(<<"n", "a">>),
             products |-> PyList(<<>>)],
           [id |-> Zeta, name |-> Zeta] }

CandidateLists == UNION { [1..k -> CandidateVendors] : k \in 0..MaxCandidates }

\* A call of DuplicateChecker.check_vendor_duplicates.
CheckVendorDuplicates ==
    /\ NotCalled
    /\ \E name \in IntendedNames, email \in IntendedEmails, phone \in IntendedPhones,
          existing_vendors \in CandidateLists :
           Applies([call |-> "check_vendor_duplicates", name |-> name,
                    email |-> email, phone |-> phone,
                    existing_vendors |-> existing_vendors,
                    ret |-> check_vendor_duplicates(name, email, phone,
                                                    existing_vendors)])

\* The candidates in a call of check_invoice_duplicates.
MaxInvoices == 1

Kes == PyStr(<<"k", "e", "s">>)

OrderA == PyStr(<<"a", "1">>)

OrderAUpper == PyStr(<<" ", "A", "1">>)

\* The hours of a week.
Week == 7 * 24

\* The candidate dicts: a vendor that is and one that nearly is the
\* intended one; amounts that are zero, within and beyond 10% of 100; dates
\* the same and just over a week apart, and none.
CandidateInvoices ==
    { [id |-> PyTok("inv"), vendor_name |-> v, total_amount |-> PyInt(amt),
       order_date |-> d, order_number |-> o] :
        v \in {Kesu, Kes}, amt \in {0, 90, 112},
        d \in {IsoDate(0), IsoDate(Week + 1), PyStr(<<>>)},
        o \in {None, OrderAUpper} }

InvoiceLists == UNION { [1..k -> CandidateInvoices] : k \in 0..MaxInvoices }

\* A call of DuplicateChecker.check_invoice_duplicates.
CheckInvoiceDuplicates ==
    /\ NotCalled
    /\ \E vendor_name \in {Kesu, KesuSp}, amount \in {0 - 5, 0, 100},
          order_date \in {IsoDate(0), IsoDate(Week + 1), PyTok("bad")},
          order_number \in {None, OrderA}, existing_invoices \in InvoiceLists :
           Applies([call |-> "check_invoice_duplicates",
                    vendor_name |-> vendor_name, amount |-> PyInt(amount),
                    order_date |-> order_date, order_number |-> order_number,
                    existing_invoices |-> existing_invoices,
                    ret |-> check_invoice_duplicates(vendor_name, PyInt(amount),
                                order_date, order_number, existing_invoices)])

\* The length of fields_to_check.
MaxFields == 2

\* The values of a field: None, "", strings that differ in white space
\* only, a number and a list.  Values of one type only are equal here as
\* they are in Python; 1, 1.0 and True, equal in Python, are left out.
FieldValues ==
    {None, PyStr(<<>>), PyStr(<<"a">>), PyStr(<<" ", "a">>), PyInt(0), PyList(<<>>)}

\* The dicts with keys among name and email.
Dicts ==
    UNION { [ks -> FieldValues] : ks \in SUBSET {"name", "email"} }

\* fields_to_check: omitted, or a list of field names, which may name a
\* field twice.
FieldLists ==
    {Nothing} \cup
    { Some(fs) : fs \in UNION { [1..k -> {"name", "email"}] : k \in 0..MaxFields } }

\* A call of ChangeVerifier.verify_record.
VerifyRecord ==
    /\ NotCalled
    /\ \E intended_data \in Dicts, actual_data \in Dicts, fields_to_check \in FieldLists :
           Applies([call |-> "verify_record", intended_data |-> intended_data,
                    actual_data |-> actual_data,
                    fields_to_check |-> fields_to_check,
                    ret |-> IF fields_to_check = Nothing
                            THEN verify_record(intended_data, actual_data)
                            ELSE verify_record_fields(intended_data, actual_data,
                                                      fields_to_check[1])])

\* The words of the names compared by contains_same_words.
MaxWords == 2

\* A word in two spellings, two more words and a common word.
Vocabulary ==
    { <<"K", "e">>, <<"k", "e">>, <<"c", "o">>, <<"i", "n", "c">>,
      <<"t", "h", "e">> }

RECURSIVE JoinWords(_)
\* " ".join(ws)
JoinWords(ws) ==
    IF ws = <<>> THEN <<>>
    ELSE IF Len(ws) = 1 THEN ws[1]
    ELSE ws[1] \o <<" ">> \o JoinWords(Tail(ws))

\* The names of at most MaxWords words.
WordNames ==
    { PyStr(JoinWords(ws)) : ws \in UNION { [1..k -> Vocabulary] : k \in 0..MaxWords } }

\* A call of DuplicateChecker.contains_same_words.
ContainsSameWords ==
    /\ NotCalled
    /\ \E s1 \in WordNames, s2 \in WordNames :
           Applies([call |-> "contains_same_words", s1 |-> s1, s2 |-> s2,
                    ret |-> contains_same_words(s1, s2)])

PureNext ==
    \/ StringSimilarity
    \/ CheckVendorDuplicates
    \/ CheckInvoiceDuplicates
    \/ VerifyRecord
    \/ ContainsSameWords

PureSpec == PureInit /\ [][PureNext]_vars

(***************************************************************************)
(* Properties.  A property of a call is stated of the step that makes it:  *)
(* the unprimed variables are the state before the call, the primed ones   *)
(* the state after it, and last' holds the call.                           *)
(***************************************************************************)
WriterCalls == {"add_vendor", "update_vendor"}

\* The positions of the events of the set S.
Positions(events, S) == {i \in 1..Len(events) : events[i] \in S}

Count(events, S) == Cardinality(Positions(events, S))

CalledWriter(events) == Positions(events, WriterCalls) # {}

\* The entry a non-empty log ends with.
FinalEntry(file) == file[Len(file)]

\* The call of the step appended exactly one entry to the audit log.
AppendedOne == Len(audit_file') = Len(audit_file) + 1 /\ archives' = archives

OutcomeResults == {"success", "verification_failed", "failed"}

\* C1, as stated: in every call, each call of the store writer has exactly
\* one audit entry written before it (the decision) and exactly one written
\* after it (the outcome).
C1_DecisionAndOutcomeEntries ==
    \A i \in Positions(last.events, WriterCalls) :
        /\ Cardinality({j \in Positions(last.events, {"audit"}) : j < i}) = 1
        /\ Cardinality({j \in Positions(last.events, {"audit"}) : j > i}) = 1

C1_Step ==
    CalledWriter(last'.events) =>
        /\ Count(last'.events, WriterCalls) = 1
        /\ \A i \in Positions(last'.events, WriterCalls) :
              /\ {j \in Positions(last'.events, {"audit"}) : j < i} = {}
              /\ Cardinality({j \in Positions(last'.events, {"audit"}) : j > i}) = 1
        /\ AppendedOne
        /\ LET e == FinalEntry(audit_file')
           IN /\ e.result \in OutcomeResults
              /\ e.result = last'.ret.status
              /\ e.operation = (IF Count(last'.events, {"add_vendor"}) = 1
                                THEN "add_vendor" ELSE "update_vendor")
              /\ e.duplicates_found = 0
              /\ (e.user_confirmed = PyBool(TRUE))
                    <=> (last'.call = "confirm_operation" \/ last'.skip_duplicate_check)
              /\ (e.user_confirmed = None)
                    <=> (last'.call = "add_vendor_safe" /\ ~last'.skip_duplicate_check)

\* C1, amended: a call makes at most one call of the store writer; no audit
\* entry is written in the call before it and exactly one after it, which
\* records the outcome the call returns (success, verification_failed or
\* failed) together with the decision (no duplicates found and nothing
\* confirmed, or confirmed by the user).
C1_WriteThenOneOutcomeEntry == [][C1_Step]_vars

\* A confirmed update wrote the store and was audited as a success.
C1_Witness ==
    /\ last.call = "confirm_operation"
    /\ Count(last.events, {"update_vendor"}) = 1
    /\ last.ret.status = "success"
    /\ FinalEntry(audit_file).result = "success"

\* C2, as stated: every call that returns status failed appended exactly
\* one audit entry.
C2_FailedCallAuditedOnce ==
    last.ret.status = "failed" => Count(last.events, {"audit"}) = 1

C2_Step ==
    last'.ret.status = "failed" =>
        IF CalledWriter(last'.events)
        THEN /\ AppendedOne
             /\ Count(last'.events, {"audit"}) = 1
             /\ FinalEntry(audit_file').result = "failed"
             /\ FinalEntry(audit_file').error = last'.ret.error
        ELSE /\ audit_file' = audit_file
             /\ archives' = archives
             /\ Count(last'.events, {"audit"}) = 0

\* C2, amended: a call that returns status failed appended exactly one
\* audit entry (result failed, with the error returned) when the failure is
\* that of a call of the store writer; on every other failed path (unknown
\* or processed operation id, unknown or inapplicable choice,
\* update_existing without a target id, update of a vendor that does not
\* exist) it appended none.
C2_FailedCallAuditedIffWriterFailed == [][C2_Step]_vars

\* The store raised in a confirmed update, and the failure was audited.
C2_Witness ==
    /\ last.call = "confirm_operation"
    /\ last.ret.status = "failed"
    /\ last.fault = "write"
    /\ Count(last.events, {"update_vendor"}) = 1
    /\ FinalEntry(audit_file).result = "failed"

\* The matches add_vendor_safe finds for the arguments a in the store vs.
MatchesOf(a, vs) ==
    check_vendor_duplicates(a["name"], a["email"], a["phone"],
                            existing_vendor_data(vs))

\* The registry after the step is the one before it with the entry of id
\* removed and entry stored under the fresh id new.
StagedOnly(new, entry) ==
    /\ new \notin DOMAIN pending
    /\ DOMAIN pending' = DOMAIN pending \cup {new}
    /\ \A k \in DOMAIN pending : pending'[k] = pending[k]
    /\ pending'[new].operation = entry.operation
    /\ pending'[new].entity_type = "vendor"
    /\ pending'[new].intended_data = entry.intended_data
    /\ pending'[new].duplicates = entry.duplicates
    /\ DOMAIN last_reminder' = DOMAIN pending'

C3_Step ==
    (/\ last'.call = "add_vendor_safe"
     /\ ~last'.skip_duplicate_check
     /\ last'.fault # "read")
    => \A matches \in {MatchesOf(last'.a, vendors)} :
           matches # <<>>
           => /\ last'.ret.status = "duplicate_found"
              /\ last'.ret.duplicates = matches
              /\ StagedOnly(last'.ret.operation_id,
                            [operation |-> "add_vendor",
                             intended_data |-> IntendedData(last'.a),
                             duplicates |-> matches])
              /\ AppendedOne
              /\ SubSeq(audit_file', 1, Len(audit_file)) = audit_file
              /\ FinalEntry(audit_file').result = "pending"
              /\ FinalEntry(audit_file').duplicates_found = Len(matches)
              /\ vendors' = vendors
              /\ ~CalledWriter(last'.events)

\* C3: when add_vendor_safe is called with skip_duplicate_check false and
\* the duplicate check returns at least one match, the call returns
\* duplicate_found with an operation id, the registry gains exactly one
\* entry, stored under that id with the intended data and the matches,
\* exactly one audit entry, of result pending, is appended, and the vendor
\* store is not written.
C3_DuplicateFoundStagesOnly == [][C3_Step]_vars

\* A vendor whose name is the stored one but for case and spaces was held
\* back and staged.
C3_Witness ==
    /\ last.call = "add_vendor_safe"
    /\ last.a["name"] = KesuSp
    /\ last.ret.status = "duplicate_found"
    /\ last.ret.operation_id \in DOMAIN pending
    /\ last.ret.duplicates[1].matched_fields = <<"name_similarity">>
    /\ FinalEntry(audit_file).result = "pending"

C4_Step ==
    /\ last'.call = "update_vendor_safe" =>
          /\ vendors' = vendors
          /\ ~CalledWriter(last'.events)
          /\ HasVendor(vendors, last'.a["name"]) =>
                /\ last'.ret.status = "confirmation_required"
                /\ StagedOnly(last'.ret.operation_id,
                      [operation |-> "update_vendor",
                       intended_data |->
                          [f \in {"name"} \cup {g \in UpdateFields : last'.a[g] # None}
                              |-> last'.a[f]],
                       duplicates |-> <<>>])
    /\ Count(last'.events, {"get_vendor"}) > 0 => vendors' = vendors
    /\ (vendors' # vendors /\ Count(last'.events, {"add_vendor"}) = 0) =>
          /\ last'.call = "confirm_operation"
          /\ last'.choice \in {"confirm", "proceed"}
          /\ last'.operation_id \in DOMAIN pending
          /\ pending[last'.operation_id].operation = "update_vendor"
          /\ Count(last'.events, {"update_vendor"}) = 1

\* C4: update_vendor_safe never modifies the vendor store: for an existing
\* vendor it only stages a pending update_vendor operation and returns
\* confirmation_required, also when confirm_operation runs it for
\* update_existing; the update flow changes a vendor record only in a
\* confirm_operation call whose choice is confirm or proceed, for the id of
\* a staged update_vendor.
C4_UpdateOnlyStages == [][C4_Step]_vars

\* An update of a stored vendor was staged, the store as it was.
C4_Witness ==
    /\ last.call = "update_vendor_safe"
    /\ last.ret.status = "confirmation_required"
    /\ last.ret.operation_id \in DOMAIN pending
    /\ pending[last.ret.operation_id].operation = "update_vendor"
    /\ "email" \in DOMAIN pending[last.ret.operation_id].intended_data
    /\ vendors = <<StoredKesu>>

C5_Step ==
    /\ (/\ last'.call = "confirm_operation"
        /\ last'.choice = "cancel"
        /\ last'.operation_id \in DOMAIN pending)
       => /\ DOMAIN pending' = DOMAIN pending \ {last'.operation_id}
          /\ DOMAIN last_reminder' = DOMAIN pending'
          /\ \A k \in DOMAIN pending' : pending'[k] = pending[k]
          /\ AppendedOne
          /\ FinalEntry(audit_file').result = "cancelled"
          /\ vendors' = vendors
          /\ last'.ret.status = "cancelled"
    \* An id that was issued and is no longer pending never is again.
    /\ \A id \in 1..(next_id - 1) :
          id \notin DOMAIN pending => id \notin DOMAIN pending'
    /\ (/\ last'.call = "confirm_operation"
        /\ last'.operation_id \notin DOMAIN pending)
       => /\ last'.ret.status = "failed"
          /\ vendors' = vendors
          /\ pending' = pending
          /\ ~CalledWriter(last'.events)

\* C5: confirm_operation(id, "cancel") on a pending operation removes the
\* entry from the registry, appends exactly one audit entry, of result
\* cancelled, leaves the vendor store unchanged and returns cancelled; an
\* id once removed is never pending again, and confirm_operation on an id
\* that is not pending returns failed and writes nothing, whatever the
\* choice.
C5_CancelRemovesForGood == [][C5_Step]_vars

\* The only operation staged was cancelled, and a later create_new for its
\* id failed.
C5_Witness ==
    /\ last.call = "confirm_operation"
    /\ last.operation_id = 1
    /\ next_id = 2
    /\ last.choice = "create_new"
    /\ last.ret.status = "failed"
    /\ audit_file # <<>>
    /\ FinalEntry(audit_file).result = "cancelled"
    /\ vendors = <<StoredKesu>>

\* The step is a confirm_operation call with one of the choices cs for a
\* pending operation of kind op.
Confirms(cs, op) ==
    /\ last'.call = "confirm_operation"
    /\ last'.choice \in cs
    /\ last'.operation_id \in DOMAIN pending
    /\ pending[last'.operation_id].operation = op

\* The arguments of add_vendor_safe and ActualData have the same seven keys.
VendorHolds(vs, data) ==
    /\ HasVendor(vs, data["name"])
    /\ \A f \in DOMAIN data :
          ActualData(vs[IndexOfVendor(vs, data["name"])])[f] = data[f]

C6_Step ==
    Confirms({"create_new"}, "add_vendor") =>
        LET staged == pending[last'.operation_id]
        IN /\ staged.duplicates # <<>>
           /\ last'.ret.status \in OutcomeResults
           /\ last'.ret.status # "duplicate_found"
           /\ Count(last'.events, {"get_all_vendors"}) = 0
           /\ Count(last'.events, {"pending_add"}) = 0
           /\ DOMAIN pending' = DOMAIN pending \ {last'.operation_id}
           /\ Count(last'.events, {"add_vendor"}) = 1
           /\ AppendedOne
           /\ FinalEntry(audit_file').intended_data = staged.intended_data
           /\ FinalEntry(audit_file').user_confirmed = PyBool(TRUE)
           /\ FinalEntry(audit_file').confirmation_choice = PyTok("create_new")
           /\ FinalEntry(audit_file').result = last'.ret.status
           /\ last'.fault = "none" =>
                 /\ last'.ret.status = "success"
                 /\ VendorHolds(vendors', staged.intended_data)

\* C6: confirm_operation(id, "create_new") on a pending add_vendor runs the
\* create flow with the duplicate check bypassed and with the fields stored
\* when the operation was staged: it reads no candidates, never returns
\* duplicate_found and stages nothing although matching vendors exist, its
\* audit entry records user_confirmed true with choice create_new, and,
\* unless the store raises in the write, the store afterwards holds a
\* vendor with the intended field values.
C6_CreateNewBypassesCheck == [][C6_Step]_vars

\* A new vendor was created next to the stored vendor it matches.
C6_Witness ==
    /\ last.call = "confirm_operation"
    /\ last.choice = "create_new"
    /\ last.ret.status = "success"
    /\ Len(vendors) = 2
    /\ vendors[1] = StoredKesu
    /\ vendors[2].name = KesuSp
    /\ MatchesOf(ActualData(vendors[2]), <<vendors[1]>>) # <<>>

C7_Step ==
    Confirms({"update_existing"}, "add_vendor") =>
        LET staged == pending[last'.operation_id]
            t == last'.update_record_id
        IN /\ vendors' = vendors
           /\ ~CalledWriter(last'.events)
           /\ audit_file' = audit_file
           /\ (Truthy(t) /\ HasVendor(vendors, t)) =>
                 /\ last'.ret.status = "confirmation_required"
                 /\ last'.ret.operation_id \notin DOMAIN pending
                 /\ DOMAIN pending' =
                       (DOMAIN pending \ {last'.operation_id})
                          \cup {last'.ret.operation_id}
                 /\ pending'[last'.ret.operation_id].operation = "update_vendor"
                 /\ pending'[last'.ret.operation_id].intended_data["name"] = t
                 /\ \A f \in UpdateFields :
                       IF staged.intended_data[f] = None
                       THEN f \notin DOMAIN pending'[last'.ret.operation_id].intended_data
                       ELSE pending'[last'.ret.operation_id].intended_data[f]
                               = staged.intended_data[f]
           /\ ~Truthy(t) => last'.ret.status = "failed"

\* C7: confirm_operation(id, "update_existing", update_record_id=t) on a
\* pending add_vendor creates no vendor record and writes nothing to the
\* store in that call: for an existing vendor t it stages a pending
\* update_vendor against t, with the fields of the staged add that are not
\* None, and returns confirmation_required; without update_record_id it
\* returns failed.
C7_UpdateExistingRedirects == [][C7_Step]_vars

\* A held-back add was redirected to an update of the stored vendor.
C7_Witness ==
    /\ last.call = "confirm_operation"
    /\ last.choice = "update_existing"
    /\ last.update_record_id = Kesu
    /\ last.ret.status = "confirmation_required"
    /\ last.ret.operation_id = 2
    /\ pending[2].operation = "update_vendor"
    /\ pending[2].intended_data["name"] = Kesu
    /\ vendors = <<StoredKesu>>

C8_Step ==
    (/\ Confirms({"confirm", "proceed"}, "update_vendor")
     /\ HasVendor(vendors, pending[last'.operation_id].intended_data["name"])
     /\ last'.fault = "none")
    => LET proposed == pending[last'.operation_id].intended_data
           i == IndexOfVendor(vendors, proposed["name"])
       IN /\ Count(last'.events, {"update_vendor"}) = 1
          /\ Count(last'.events, {"add_vendor"}) = 0
          /\ Len(vendors') = Len(vendors)
          /\ \A k \in 1..Len(vendors) : k # i => vendors'[k] = vendors[k]
          /\ \A f \in DOMAIN vendors[i] :
                vendors'[i][f] = IF f \in DOMAIN proposed THEN proposed[f]
                                 ELSE vendors[i][f]
          /\ AppendedOne
          /\ FinalEntry(audit_file').verification # Nothing
          /\ FinalEntry(audit_file').result \in {"success", "verification_failed"}
          /\ FinalEntry(audit_file').result = last'.ret.status
          /\ FinalEntry(audit_file').result = "success"
                <=> FinalEntry(audit_file').verification[1].passed

\* C8: confirm_operation(id, "confirm") or (id, "proceed") on a pending
\* update_vendor for an existing vendor, the store not raising, makes
\* exactly one store update, which sets every proposed field of that vendor
\* to its proposed value and leaves its other fields and all other vendors
\* unchanged, then verifies the record and appends exactly one audit entry,
\* whose result (success or verification_failed) is the status returned.
C8_ConfirmAppliesProposedFields == [][C8_Step]_vars

\* A confirmed update emptied a product list and set a lead time of 0.
C8_Witness ==
    /\ last.call = "confirm_operation"
    /\ last.choice = "proceed"
    /\ last.ret.status = "success"
    /\ Len(vendors) = 1
    /\ vendors[1].name = Kesu
    /\ vendors[1].products = PyList(<<>>)
    /\ vendors[1].lead_time_days = PyInt(0)
    /\ vendors[1].email = EmailA

ValidChoices == {"cancel", "create_new", "update_existing", "confirm", "proceed"}

C9_Step ==
    (/\ last'.call = "confirm_operation"
     /\ last'.operation_id \in DOMAIN pending
     /\ \/ last'.choice \notin ValidChoices
        \/ Confirms({"confirm", "proceed"}, "add_vendor")
        \/ Confirms({"create_new", "update_existing"}, "update_vendor"))
    => /\ last'.ret.status = "failed"
       /\ vendors' = vendors
       /\ ~CalledWriter(last'.events)

\* C9: confirm_operation on a pending operation with a choice outside
\* cancel, create_new, update_existing, confirm and proceed, or with a
\* choice that does not apply to the kind of the pending operation (confirm
\* or proceed on an add_vendor, create_new or update_existing on an
\* update_vendor), returns failed and writes nothing to the store.
C9_InvalidChoiceFails == [][C9_Step]_vars

\* confirm was refused for a held-back add of a vendor the store holds.
C9_Witness ==
    /\ last.call = "confirm_operation"
    /\ last.choice = "confirm"
    /\ last.ret.status = "failed"
    /\ last.ret.error = PyTok("Invalid choice")
    /\ Count(last.events, {"pending_remove"}) = 1
    /\ FinalEntry(audit_file).result = "pending"
    /\ FinalEntry(audit_file).intended_data["name"] = Kesu

\* C10: when the read of the candidates raises in the duplicate check of
\* add_vendor_safe, the call returns failed rather than raising, appends an
\* audit entry of result failed, and does not call the store writer.
C10_CandidateReadFailureReported ==
    (last.call = "add_vendor_safe" /\ last.fault = "read")
    => /\ last.ret.status = "failed"
       /\ Count(last.events, {"audit"}) = 1
       /\ FinalEntry(audit_file).result = "failed"
       /\ ~CalledWriter(last.events)

C11_Step ==
    (/\ last'.fault = "write"
     /\ CalledWriter(last'.events))
    => /\ last'.ret.status = "failed"
       /\ last'.ret.error = StoreError
       /\ Count(last'.events, {"audit"}) = 1
       /\ AppendedOne
       /\ SubSeq(audit_file', 1, Len(audit_file)) = audit_file
       /\ FinalEntry(audit_file').result = "failed"
       /\ FinalEntry(audit_file').error = StoreError
       /\ FinalEntry(audit_file').verification = Nothing
       /\ last'.ret.verification = Nothing

\* C11: when the store writer raises in the write of add_vendor_safe or in
\* the confirmed update of confirm_operation, the call does not raise: it
\* returns failed with the message of the error, appends exactly one audit
\* entry, of result failed with that message, and writes no success or
\* verification entry.
C11_WriterFailureReported == [][C11_Step]_vars

\* The write of a first, unconfirmed add raised and was audited as failed.
C11_Witness ==
    /\ last.call = "add_vendor_safe"
    /\ ~last.skip_duplicate_check
    /\ last.fault = "write"
    /\ Count(last.events, {"add_vendor"}) = 1
    /\ last.ret.status = "failed"
    /\ last.ret.error = StoreError
    /\ FinalEntry(audit_file).error = StoreError
    /\ FinalEntry(audit_file).user_confirmed = None

\* The intended data of the write of the step: that of the arguments of
\* add_vendor_safe, or that of the pending operation confirmed.
IntendedOfStep ==
    IF last'.call = "add_vendor_safe" THEN IntendedData(last'.a)
    ELSE pending[last'.operation_id].intended_data

C12_Step ==
    (/\ CalledWriter(last'.events)
     /\ last'.ret.status # "failed"
     /\ HasVendor(vendors', IntendedOfStep["name"]))
    => LET written == ActualData(vendors'[IndexOfVendor(vendors', IntendedOfStep["name"])])
           v == verify_record(IntendedOfStep, written)
       IN Len(v.mismatches) >= 1 =>
             /\ last'.ret.status = "verification_failed"
             /\ last'.ret.verification = Some(v)
             /\ AppendedOne
             /\ FinalEntry(audit_file').result = "verification_failed"
             /\ FinalEntry(audit_file').verification = Some(v)
             /\ FinalEntry(audit_file').actual_data = Some(written)
             /\ Count(last'.events, WriterCalls) = 1
             /\ Len(vendors') >= Len(vendors)

\* C12: when the verification after the write finds at least one mismatch
\* between the intended data and the record written, add_vendor_safe and
\* confirm_operation return verification_failed with the mismatches, append
\* an audit entry of result verification_failed, and the record written
\* stays in the store: the write is made once, not undone and not repeated.
C12_MismatchReportedNotRolledBack == [][C12_Step]_vars

\* A confirmed update was written by a store that keeps no notes: the
\* other fields are in the store, the mismatch of notes was returned.
C12_Witness ==
    /\ last.call = "confirm_operation"
    /\ last.choice = "confirm"
    /\ last.ret.status = "verification_failed"
    /\ Len(last.ret.verification[1].mismatches) = 1
    /\ last.ret.verification[1].mismatches[1].field = "notes"
    /\ vendors[1].lead_time_days = PyInt(0)
    /\ vendors[1].notes = None
    /\ FinalEntry(audit_file).result = "verification_failed"

RECURSIVE ArchivedFrom(_, _)
\* The lines of the archives named after the seconds t..MaxNow.
ArchivedFrom(ar, t) ==
    IF t > MaxNow THEN <<>>
    ELSE (IF t \in DOMAIN ar THEN ar[t] ELSE <<>>) \o ArchivedFrom(ar, t + 1)

\* The lines of all archives and of the current log.
Held == ArchivedFrom(archives, 0) \o audit_file

\* C14: after any calls of log, however timed, every entry logged is held
\* exactly once, in the current log or in an archive: no rotation replaces
\* an archive made before.
C14_EveryEntryKeptOnce ==
    /\ Len(Held) = calls
    /\ {Held[i] : i \in 1..Len(Held)} = 1..calls

\* C15: for a current log of n lines and every limit >= 0,
\* get_recent_entries(limit) returns the entries of the last min(limit, n)
\* lines of the current log, oldest first, skipping the lines that are no
\* entries.
C15_RecentEntriesAreLastMin ==
    last.call = "get_recent_entries" =>
        LET n == Len(audit_file)
            m == Min2(last.limit, n)
        IN last.ret = SelectSeq(SubSeq(audit_file, n - m + 1, n),
                                LAMBDA line : line # Malformed)

\* C16, as stated: for every string a, string_similarity(a, a) is 1.0.
C16_SelfSimilarityIsOne ==
    (last.call = "string_similarity" /\ last.s1 = last.s2)
    => last.ret = Frac(1, 1)

\* C16, amended: for every string a that has a character other than white
\* space, string_similarity(a, a) is 1.0; for the empty string and for a
\* string of white space only it is 0.0.
C16_SelfSimilarityOfNonEmpty ==
    (last.call = "string_similarity" /\ last.s1 = last.s2)
    => last.ret = (IF normalize_string(last.s1) = <<>> THEN Frac(0, 1)
                   ELSE Frac(1, 1))

\* A string with an upper-case letter and a trailing space, compared with
\* itself.
C16_Witness ==
    /\ last.call = "string_similarity"
    /\ last.s1 = PyStr(<<"a", "B", " ">>)
    /\ last.s2 = last.s1
    /\ last.ret = Frac(1, 1)

\* C17: in check_vendor_duplicates, every candidate whose email and the
\* intended email are both given, not empty, and equal after trimming and
\* lower-casing is returned with score 1.0 and with email among its matched
\* fields, whatever the names are and whichever name rule applied.
C17_EqualEmailIsDefinitive ==
    last.call = "check_vendor_duplicates" =>
        \A i \in 1..Len(last.existing_vendors) :
            LET vendor == last.existing_vendors[i]
            IN (/\ Truthy(last.email)
                /\ Truthy(Get(vendor, "email"))
                /\ LowerStr(Strip(last.email.s)) = LowerStr(Strip(vendor["email"].s)))
               => \E j \in 1..Len(last.ret) :
                     /\ last.ret[j].data = vendor
                     /\ last.ret[j].similarity_score = Frac(1, 1)
                     /\ \E k \in 1..Len(last.ret[j].matched_fields) :
                           last.ret[j].matched_fields[k] = "email"

\* A candidate whose name matches the intended name by no rule was returned
\* for its email, which differs from the intended one in case and spaces.
C17_Witness ==
    /\ last.call = "check_vendor_duplicates"
    /\ last.name = Acme
    /\ last.email = EmailAUpper
    /\ Len(last.existing_vendors) = 1
    /\ last.existing_vendors[1].name = Kesu
    /\ last.existing_vendors[1].email = EmailA
    /\ Len(last.ret) = 1
    /\ last.ret[1].matched_fields = <<"email">>
    /\ last.ret[1].similarity_score = Frac(1, 1)

\* C18: check_invoice_duplicates returns no candidate whose vendor name
\* is less than 0.8 similar to the intended vendor name, not even one with
\* the same order number, date and amount.
C18_OtherVendorNeverReturned ==
    last.call = "check_invoice_duplicates" =>
        /\ \A j \in 1..Len(last.ret) :
              FracGE(string_similarity(last.vendor_name,
                                       last.ret[j].data["vendor_name"]),
                     Frac(4, 5))
        /\ \A i \in 1..Len(last.existing_invoices) :
              FracGT(Frac(4, 5),
                     string_similarity(last.vendor_name,
                                       last.existing_invoices[i]["vendor_name"]))
              => \A j \in 1..Len(last.ret) :
                    last.ret[j].data # last.existing_invoices[i]

\* A candidate of a vendor 0.75 similar, with the intended order number and
\* date, was not returned.
C18_Witness ==
    /\ last.call = "check_invoice_duplicates"
    /\ last.vendor_name = Kesu
    /\ last.order_number = OrderA
    /\ last.order_date = IsoDate(0)
    /\ Len(last.existing_invoices) = 1
    /\ last.existing_invoices[1]["vendor_name"] = Kes
    /\ last.existing_invoices[1]["order_number"] = OrderAUpper
    /\ last.existing_invoices[1]["order_date"] = IsoDate(0)
    /\ last.ret = <<>>

\* C19: in check_invoice_duplicates the date_and_amount rule takes the
\* amounts to be within 10% when both are positive and their difference is
\* at most a tenth of the larger, or when both are exactly zero; when
\* either amount is zero or negative, and not both are zero, the rule does
\* not fire for the candidate.
C19_AmountRuleGuardsNonPositive ==
    last.call = "check_invoice_duplicates" =>
        \A j \in 1..Len(last.ret) :
            LET a == last.amount.n
                b == last.ret[j].data["total_amount"].n
            IN (\E k \in 1..Len(last.ret[j].matched_fields) :
                   last.ret[j].matched_fields[k] = "date_and_amount")
               => \/ a > 0 /\ b > 0 /\ 10 * Abs(a - b) <= Max2(a, b)
                  \/ a = 0 /\ b = 0

\* C20: verify_record(intended, actual, fields) passes exactly when no
\* checked field differs once strings are trimmed and None or a missing key
\* is taken as the empty string, other values compared as they are; its
\* mismatches are one entry {field, intended, actual} for each checked
\* field that differs, in the order checked, and none for a field that
\* matches; with fields omitted the checked fields are the keys of
\* intended, each once.
C20_VerifyRecordReportsDifferences ==
    last.call = "verify_record" =>
        LET Trimmed(d, f) ==
                IF f \notin DOMAIN d \/ d[f] = None THEN PyStr(<<>>)
                ELSE IF d[f].t = "str" THEN PyStr(RStrip(LStrip(d[f].s)))
                ELSE d[f]
            Differs(f) == Trimmed(last.intended_data, f) # Trimmed(last.actual_data, f)
            checked == IF last.fields_to_check = Nothing
                       THEN Keys(last.intended_data)
                       ELSE last.fields_to_check[1]
            differing == SelectSeq(checked, Differs)
        IN /\ last.ret.passed <=> (\A i \in 1..Len(checked) : ~Differs(checked[i]))
           /\ Len(last.ret.mismatches) = Len(differing)
           /\ \A i \in 1..Len(differing) :
                 last.ret.mismatches[i] =
                    [field |-> differing[i],
                     intended |-> Trimmed(last.intended_data, differing[i]),
                     actual |-> Trimmed(last.actual_data, differing[i])]
           /\ last.fields_to_check = Nothing =>
                 /\ {checked[i] : i \in 1..Len(checked)} = DOMAIN last.intended_data
                 /\ Len(checked) = Cardinality(DOMAIN last.intended_data)

\* With fields omitted, a name differing in white space only matched and
\* an email given as None but stored as 0 was the one mismatch.
C20_Witness ==
    /\ last.call = "verify_record"
    /\ last.fields_to_check = Nothing
    /\ last.intended_data = [name |-> PyStr(<<" ", "a">>), email |-> None]
    /\ last.actual_data = [name |-> PyStr(<<"a">>), email |-> PyInt(0)]
    /\ ~last.ret.passed
    /\ last.ret.mismatches =
          <<[field |-> "email", intended |-> PyStr(<<>>), actual |-> PyInt(0)]>>

\* The significant words of a name: those of the normalized name that are no
\* common words.
SignificantWords(v) == SplitWords(normalize_string(v), <<>>, {}) \ common_words

\* C21: contains_same_words returns True whenever the significant words of
\* one name are a non-empty subset of those of the other, and False when
\* the two sets of significant words are disjoint.
C21_SubsetOfWordsIsSame ==
    last.call = "contains_same_words" =>
        LET words1 == SignificantWords(last.s1)
            words2 == SignificantWords(last.s2)
        IN /\ (/\ words1 # {} /\ words2 # {}
               /\ (words1 \subseteq words2 \/ words2 \subseteq words1))
              => last.ret = TRUE
           /\ words1 \cap words2 = {} => last.ret = FALSE

\* C22: for a candidate of the same vendor whose amount is within 10% of a
\* positive intended amount, date_and_amount is among the matched fields
\* exactly when the two order dates are at most 7 days apart, whichever of
\* the two is the earlier.
C22_DateRuleIsSymmetric ==
    (/\ last.call = "check_invoice_duplicates"
     /\ Len(last.existing_invoices) = 1
     /\ fromisoformat(last.order_date) # Nothing
     /\ fromisoformat(last.existing_invoices[1]["order_date"]) # Nothing
     /\ SameVendor(last.vendor_name, last.existing_invoices[1]["vendor_name"])
     /\ last.amount.n > 0
     /\ last.existing_invoices[1]["total_amount"].n > 0
     /\ 10 * Abs(last.amount.n - last.existing_invoices[1]["total_amount"].n)
            <= Max2(last.amount.n, last.existing_invoices[1]["total_amount"].n))
    => LET target == fromisoformat(last.order_date)[1]
           invoice == fromisoformat(last.existing_invoices[1]["order_date"])[1]
           fired == /\ last.ret # <<>>
                    /\ \E k \in DOMAIN last.ret[1].matched_fields :
                          last.ret[1].matched_fields[k] = "date_and_amount"
       IN fired <=> Abs(target - invoice) <= Week

\* Every call of log has ended, by returning or by raising.
AllLogged == \A c \in (1..MaxCallers) : threads[c].pc \in {"done", "raised"}

\* C23: with callers of log running concurrently, once all calls have
\* ended every entry handed to log is held exactly once, in the current log
\* or in an archive.
C23_ConcurrentLogKeepsEveryEntry ==
    AllLogged =>
        /\ Len(Held) = calls
        /\ {Held[i] : i \in 1..Len(Held)} = 1..calls

\* C24: of the concurrent calls of confirm_operation for one pending
\* operation, at most one finds the entry and writes to the store; every
\* other call returns failed, the operation not being found.
C24_ConcurrentConfirmIsSerialized ==
    \A c \in DOMAIN threads, d \in DOMAIN threads :
        (/\ c # d
         /\ threads[c].pc = "done"
         /\ threads[d].pc = "done"
         /\ threads[c].found # Nothing)
        => /\ threads[d].found = Nothing
           /\ ~threads[d].wrote
           /\ threads[d].ret = Failed("Operation not found or already processed")

C25_Step ==
    (last'.call = "add_vendor_safe" /\ ~last'.skip_duplicate_check) =>
        /\ Len(vendors') >= Len(vendors)
        /\ \A i \in 1..Len(vendors) : vendors'[i] = vendors[i]
        /\ vendors' # vendors =>
              /\ Len(vendors') = Len(vendors) + 1
              /\ vendors'[Len(vendors')].name = last'.a["name"]
              /\ ~HasVendor(vendors, last'.a["name"])
        /\ (HasVendor(vendors, last'.a["name"]) /\ last'.fault # "read") =>
              /\ last'.ret.status = "duplicate_found"
              /\ \E k \in DOMAIN last'.ret.duplicates :
                    /\ last'.ret.duplicates[k].data.name = last'.a["name"]
                    /\ last'.ret.duplicates[k].matched_fields[1]
                          \in {"name_similarity", "name_close"}

\* C25: a call of add_vendor_safe with skip_duplicate_check false leaves
\* every vendor of the store as it was; if it writes, it adds one record,
\* under a name the store did not hold; and if the store holds a vendor of
\* the name given and the candidates were read, the call returns
\* duplicate_found with that vendor among the matches, tagged
\* name_similarity or name_close.
C25_AddNeverReplaces == [][C25_Step]_vars

\* An add under the very name of a stored vendor was held back.
C25_Witness ==
    /\ last.call = "add_vendor_safe"
    /\ ~last.skip_duplicate_check
    /\ last.a["name"] = Kesu
    /\ HasVendor(vendors, Kesu)
    /\ last.ret.status = "duplicate_found"
    /\ last.ret.duplicates[1].data.name = Kesu
    /\ vendors[IndexOfVendor(vendors, Kesu)].products = PyList(<<"bolt">>)

C26_Step ==
    (/\ last'.call = "confirm_operation"
     /\ last'.choice = "create_new"
     /\ last'.ret.status = "success")
    => /\ Len(vendors') = Len(vendors) + 1
       /\ \A i \in 1..Len(vendors) : vendors'[i] = vendors[i]

\* C26: after a confirm_operation of choice create_new that returns
\* success, the store holds exactly one more vendor than before the call
\* and every vendor it held before is unchanged.
C26_CreateNewAddsOne == [][C26_Step]_vars

\* The third call of a run confirms the update that the second call staged
\* by redirecting, with update_existing, the add that the first call
\* staged: both ids were issued, the first is gone from the registry, and
\* the log begins with the pending entry of the add.
ConfirmsRedirectedAdd ==
    /\ calls = 2
    /\ next_id = 3
    /\ DOMAIN pending = {2}
    /\ audit_file # <<>>
    /\ audit_file[1].operation = "add_vendor"
    /\ audit_file[1].result = "pending"
    /\ last'.call = "confirm_operation"
    /\ last'.operation_id = 2
    /\ last'.choice \in {"confirm", "proceed"}
    /\ last'.ret.status \in {"success", "verification_failed"}

\* The add request gave no value for field f of its intended data d: it
\* passed None, or no products (the requests of the model give a non-empty
\* list of products or none).
NotSupplied(d, f) == d[f] = None \/ (f = "products" /\ d[f] = PyList(<<>>))

C27_Step ==
    ConfirmsRedirectedAdd =>
        LET d == audit_file[1].intended_data
            t == pending[2].intended_data["name"]
        IN \A f \in UpdateFields :
              NotSupplied(d, f) =>
                  vendors'[IndexOfVendor(vendors', t)][f]
                      = vendors[IndexOfVendor(vendors, t)][f]

\* C27: when a pending add_vendor is redirected with update_existing to a
\* vendor t and the update is then confirmed, every field of t for which
\* the add request gave no value keeps the value it had, the products among
\* them.
C27_RedirectKeepsUnsuppliedFields == [][C27_Step]_vars

C28_Step ==
    last'.call = "confirm_operation" =>
        /\ last'.operation_id \in DOMAIN pending =>
              /\ last'.operation_id \notin DOMAIN pending'
              /\ last'.operation_id \notin DOMAIN last_reminder'
        /\ last'.operation_id \notin DOMAIN pending =>
              /\ last'.ret = Failed("Operation not found or already processed")
              /\ pending' = pending

\* C28: whenever confirm_operation finds a pending entry for operation_id,
\* the entry is in the registry no more when the call returns, whatever the
\* choice and however the call ends; a call for an id that is not in the
\* registry returns failed, the operation not being found.
C28_FoundEntryIsRemoved == [][C28_Step]_vars

\* A redirect to a vendor the store does not hold failed, and the staged
\* add is gone.
C28_Witness ==
    /\ last.call = "confirm_operation"
    /\ last.choice = "update_existing"
    /\ last.update_record_id = Zeta
    /\ last.ret = Failed("Vendor not found")
    /\ last.events[1] = "pending_remove"
    /\ last.operation_id \notin DOMAIN pending

\* The behaviours of VendorHelper: its calls return, or the write raises.
VendorHelperFaults == {"none", "write"}

C29_Step ==
    (/\ last'.call \in {"add_vendor_safe", "confirm_operation"}
     /\ last'.fault \in VendorHelperFaults)
    => /\ last'.ret.status # "verification_failed"
       /\ \A i \in (Len(audit_file) + 1)..Len(audit_file') :
             /\ audit_file'[i].result # "verification_failed"
             /\ audit_file'[i].actual_data # Nothing =>
                   /\ audit_file'[i].verification[1].passed
                   /\ audit_file'[i].actual_data[1] =
                         ActualData(vendors'[IndexOfVendor(vendors',
                                        audit_file'[i].notion_record_id)])

\* C29: with VendorHelper as the store, no call of add_vendor_safe or of
\* confirm_operation returns verification_failed or appends an audit entry
\* of that result: the actual data verified are the fields of the record
\* the writer has just stored, and the verification passes.
C29_VendorHelperNeverFailsVerification == [][C29_Step]_vars

\* A confirmed update of VendorHelper that set an empty list, the number 0
\* and notes with leading white space was verified and passed.
C29_Witness ==
    /\ last.call = "confirm_operation"
    /\ last.fault = "none"
    /\ last.choice = "confirm"
    /\ last.ret.status = "success"
    /\ last.ret.verification[1].passed
    /\ FinalEntry(audit_file).result = "success"
    /\ FinalEntry(audit_file).intended_data["notes"] = NoteSp
    /\ FinalEntry(audit_file).actual_data[1]["notes"] = NoteSp
    /\ FinalEntry(audit_file).actual_data[1]["lead_time_days"] = PyInt(0)

\* C30: check_vendor_duplicates tags a candidate with phone only when the
\* intended phone and the candidate's phone hold the same digits, and at
\* least one: two phones without a digit are no phone match.
C30_PhoneMatchNeedsDigits ==
    last.call = "check_vendor_duplicates" =>
        \A k \in DOMAIN last.ret :
            (\E j \in DOMAIN last.ret[k].matched_fields :
                 last.ret[k].matched_fields[j] = "phone")
            => /\ normalize_phone(last.phone) # <<>>
               /\ normalize_phone(last.phone)
                     = normalize_phone(Get(last.ret[k].data, "phone"))

====
